---- MODULE Spec2Model ----
(***************************************************************************)
(* Nuvex: a three-layer key/value storage engine.                          *)
(*   L1 MemoryStorage   (src/src/layers/memory.ts, lines 71-345)           *)
(*   L2 RedisStorage    (src/src/layers/memory.ts, lines 962-1306)         *)
(*   L3 PostgresStorage (src/src/layers/memory.ts, lines 432-891)          *)
(*   StorageEngine      (src/src/core/engine.ts,  lines 167-1326)          *)
(* Every await of the engine is a step boundary: a step is the code that   *)
(* runs after one await returns, up to and including the effect of the     *)
(* next awaited layer call.                                                *)
(***************************************************************************)
EXTENDS Integers, Sequences, FiniteSets, TLC

(***************************************************************************)
(* Bounds of the model                                                     *)
(***************************************************************************)
\* L1 capacity (config.memory.maxSize) used by the model
MaxSize == 2
\* the clock advances at most this many times
MaxTicks == 3
\* numeric values stay within 1..MaxValue
MaxValue == 3

(***************************************************************************)
(* Program constants                                                       *)
(***************************************************************************)
\* ttlSeconds * 1000: layers take a TTL in seconds and keep expiry in ms
MsPerSecond == 1000
\* config.redis?.ttl || 3 * 24 * 60 * 60: the TTL used when warming caches
DefaultTTL == 259200
\* one advance of the clock, in ms: half a second
TickMs == MsPerSecond \div 2

Keys == {"a", "b", "c", "d"}
\* the keys the client keeps for itself: '__nuvex_last_backup_metadata',
\* '__nuvex_last_restore_metadata' and '__backup:<id>'
LastBackupKey == "__nuvex_last_backup_metadata"
LastRestoreKey == "__nuvex_last_restore_metadata"
InternalBackupKey == "__backup:b1"
\* key.startsWith('__nuvex_') || key.startsWith('__backup:')
InternalKeys == {LastBackupKey, LastRestoreKey, InternalBackupKey}
\* the keys L2 and L3 are followed on
StoreKeys == Keys \cup InternalKeys
\* the probe key of MemoryStorage.ping
HealthCheckKey == "__nuvex_health_check__"
Procs == {"p1", "p2", "p3"}
\* the values callers store
SetValues == {1, 2}
\* the TTLs, in seconds, callers pass: none, or one second
TTLs == {0, 1}
\* StorageLayer enum
LayerMemory == "memory"
LayerRedis == "redis"
LayerPostgres == "postgres"
\* options.layer undefined
NoLayer == "default"
Layers == {LayerMemory, LayerRedis, LayerPostgres}

\* a looked-up value: null is the empty set, a value v is {v}
Null == {}
Some(v) == {v}

\* engine.metrics: the counters of the engine (averageResponseTime, which is
\* not a counter, is left out).  Unmetered stands for counters not followed.
Counters == {"memoryHits", "memoryMisses", "redisHits", "redisMisses",
             "postgresHits", "postgresMisses", "totalOperations"}
Unmetered == Null
ZeroMetrics == Some([f \in Counters |-> 0])
\* this.metrics.f++ for every f of fs
Count(m, fs) == {[f \in Counters |-> IF f \in fs THEN r[f] + 1 ELSE r[f]] : r \in m}

VARIABLES now,    \* Date.now() / NOW(), in ms
    l1,           \* MemoryStorage.cache: a Map in insertion order
    l2,           \* the Redis server's keys
    l3,           \* the rows of the PostgreSQL table
    l2Redis,      \* engine.l2Redis # null
    l3Postgres,   \* engine.l3Postgres # null
    l2conn,       \* RedisStorage.connected
    l3conn,       \* PostgresStorage.connected
    connected,    \* engine.connected
    cleanupTimer, \* engine.cleanupInterval # null
    calls,        \* the engine calls in flight or returned, one slot per caller
    mru,          \* keys of L1 from least to most recently used (get hit or set)
    memRet,       \* the last result a layer-level call on L1 returned
    metrics,      \* engine.metrics, the counters (or Unmetered)
    instance,     \* NuvexClient.instance: null or the n-th client constructed
    created,      \* how many clients initialize has constructed
    initialized,  \* an initialize has taken effect with no shutdown since
    ownsPool,     \* PostgresStorage.ownsPool
    pool,         \* PostgresStorage.pool # null
    openPools,    \* the pools on which end() has not been called
    files         \* nuvex-backups/: the backup file, when there is one

vars == <<now, l1, l2, l3, l2Redis, l3Postgres, l2conn, l3conn, connected,
          cleanupTimer, calls, mru, memRet, metrics, instance, created,
          initialized, ownsPool, pool, openPools, files>>

clientVars == <<instance, created, initialized, files>>
poolVars == <<ownsPool, pool, openPools>>

\* the pools: the one the caller supplied, the one the engine created last,
\* and those the engine created earlier and no longer refers to
GivenPool == "given"
OwnPool == "own"
ReplacedPool == "replaced"

(***************************************************************************)
(* JavaScript Map, kept as the sequence of its entries in insertion order  *)
(***************************************************************************)
MapIndex(m, k) ==
    IF \E i \in 1..Len(m) : m[i].key = k
    THEN CHOOSE i \in 1..Len(m) : m[i].key = k
    ELSE 0

MapHas(m, k) == MapIndex(m, k) # 0

MapKeys(m) == {m[i].key : i \in 1..Len(m)}

\* Map.delete
MapDelete(m, k) == SelectSeq(m, LAMBDA e : e.key # k)

\* Map.set: a key already present keeps its position, a new key goes last
MapSet(m, k, entry) ==
    IF MapHas(m, k)
    THEN [m EXCEPT ![MapIndex(m, k)] = entry]
    ELSE Append(m, entry)

\* Date.now() + (ttlSeconds * 1000) when ttlSeconds is truthy, else no expiry (0)
ExpiryOf(ttl, t) == IF ttl # 0 THEN t + (ttl * MsPerSecond) ELSE 0

MkEntry(k, v, ttl, t) == [key |-> k, value |-> v, expires |-> ExpiryOf(ttl, t)]

(***************************************************************************)
(* L1 MemoryStorage                                                        *)
(***************************************************************************)
\* entry.expires && Date.now() > entry.expires
MemExpired(e, t) == e.expires # 0 /\ t > e.expires

\* MemoryStorage.get: the value returned
MemGetValue(cache, k, t) ==
    IF ~MapHas(cache, k) THEN Null
    ELSE LET e == cache[MapIndex(cache, k)]
         IN IF MemExpired(e, t) THEN Null ELSE Some(e.value)

\* MemoryStorage.get: the cache afterwards (expired entry removed, hit moved last)
MemGetCache(cache, k, t) ==
    IF ~MapHas(cache, k) THEN cache
    ELSE LET e == cache[MapIndex(cache, k)]
         IN IF MemExpired(e, t) THEN MapDelete(cache, k)
            ELSE MapSet(MapDelete(cache, k), k, e)

\* the eviction step that lets the cache grow one past maxSize
MemEvictOffByOne(cache, k, maxSize) ==
    IF Len(cache) > maxSize /\ ~MapHas(cache, k) /\ Len(cache) > 0
    THEN MapDelete(cache, cache[1].key)
    ELSE cache

\* MemoryStorage.set: the eviction step
MemEvict(cache, k, maxSize) ==
    IF Len(cache) >= maxSize /\ ~MapHas(cache, k) /\ Len(cache) > 0
    THEN MapDelete(cache, cache[1].key)
    ELSE cache

\* MemoryStorage.set
MemSet(cache, k, v, ttl, t, maxSize) ==
    MapSet(MemEvict(cache, k, maxSize), k, MkEntry(k, v, ttl, t))

\* MemoryStorage.delete
MemDelete(cache, k) == MapDelete(cache, k)

\* MemoryStorage.exists: the answer
MemExistsValue(cache, k, t) ==
    MapHas(cache, k) /\ ~MemExpired(cache[MapIndex(cache, k)], t)

\* MemoryStorage.exists: the cache afterwards
MemExistsCache(cache, k, t) ==
    IF MapHas(cache, k) /\ MemExpired(cache[MapIndex(cache, k)], t)
    THEN MapDelete(cache, k)
    ELSE cache

\* MemoryStorage.cleanup
MemCleanup(cache, t) == SelectSeq(cache, LAMBDA e : ~MemExpired(e, t))

\* MemoryStorage.ping: write and delete the probe key
MemPing(cache) ==
    MapDelete(MapSet(cache, HealthCheckKey,
                     [key |-> HealthCheckKey, value |-> 1, expires |-> 0]),
              HealthCheckKey)

(***************************************************************************)
(* L2 RedisStorage over the server's keys: k -> {} or {[value, expires]}   *)
(***************************************************************************)
EmptyStore == [k \in StoreKeys |-> {}]

MkRow(v, ttl, t) == [value |-> v, expires |-> ExpiryOf(ttl, t)]

\* the server's view of a key: an expired key is gone
RedisLive(store, k, t) == {e \in store[k] : e.expires = 0 \/ t < e.expires}

\* RedisStorage.get: null when not connected or on a transport error
RedisGet(up, store, k, t) ==
    IF ~up THEN Null ELSE {e.value : e \in RedisLive(store, k, t)}

\* RedisStorage.set: setEx / set; a failure is logged and swallowed
RedisSet(up, store, k, v, ttl, t) ==
    IF ~up THEN store ELSE [store EXCEPT ![k] = {MkRow(v, ttl, t)}]

\* RedisStorage.delete
RedisDelete(up, store, k) ==
    IF ~up THEN store ELSE [store EXCEPT ![k] = {}]

\* RedisStorage.exists
RedisExists(up, store, k, t) == up /\ RedisLive(store, k, t) # {}

\* RedisStorage.increment: the value INCRBY returns
RedisIncrValue(store, k, delta, t) ==
    LET live == RedisLive(store, k, t)
    IN IF live = {} THEN delta ELSE (CHOOSE e \in live : TRUE).value + delta

\* RedisStorage.increment: INCRBY keeps the key's expiry, EXPIRE replaces it
RedisIncrement(store, k, delta, ttl, t) ==
    LET live == RedisLive(store, k, t)
        kept == IF live = {} THEN 0 ELSE (CHOOSE e \in live : TRUE).expires
    IN [store EXCEPT ![k] =
          {[value |-> RedisIncrValue(store, k, delta, t),
            expires |-> IF ttl # 0 THEN ExpiryOf(ttl, t) ELSE kept]}]

(***************************************************************************)
(* L3 PostgresStorage over the table's rows: k -> {} or {[value, expires]} *)
(***************************************************************************)
\* expires_at IS NULL OR expires_at > NOW()
PgLive(store, k, t) == {e \in store[k] : e.expires = 0 \/ e.expires > t}

\* PostgresStorage.get: null when not connected or when the query fails
PgGet(up, store, k, t) ==
    IF ~up THEN Null ELSE {e.value : e \in PgLive(store, k, t)}

\* PostgresStorage.set: the upsert (the caller handles a throw)
PgSet(store, k, v, ttl, t) == [store EXCEPT ![k] = {MkRow(v, ttl, t)}]

\* PostgresStorage.delete
PgDelete(up, store, k) ==
    IF ~up THEN store ELSE [store EXCEPT ![k] = {}]

\* PostgresStorage.exists
PgExists(up, store, k, t) == up /\ PgLive(store, k, t) # {}

\* the upsert that overwrites the row with the delta on conflict
PgIncrValueOverwrite(store, k, delta, t) == delta

\* PostgresStorage.increment: the value RETURNING gives
PgIncrValue(store, k, delta, t) ==
    LET live == PgLive(store, k, t)
    IN IF live = {} THEN delta ELSE (CHOOSE e \in live : TRUE).value + delta

\* PostgresStorage.increment: the upsert
PgIncrement(store, k, delta, ttl, t) ==
    [store EXCEPT ![k] = {[value |-> PgIncrValue(store, k, delta, t),
                           expires |-> ExpiryOf(ttl, t)]}]

(***************************************************************************)
(* The clock                                                               *)
(***************************************************************************)
Tick ==
    /\ now < MaxTicks * TickMs
    /\ now' = now + TickMs
    /\ UNCHANGED <<l1, l2, l3, l2Redis, l3Postgres, l2conn, l3conn, connected,
                   cleanupTimer, calls, mru, memRet, metrics, clientVars, poolVars>>

(***************************************************************************)
(* Calls made directly on the MemoryStorage layer.  mru keeps the keys of  *)
(* the cache in order of last use, a use being a get hit or a set.         *)
(***************************************************************************)
engineVars == <<l2, l3, l2Redis, l3Postgres, l2conn, l3conn, connected,
                cleanupTimer, calls, metrics, clientVars, poolVars>>

NoMemRet == [op |-> "none", key |-> "", hit |-> FALSE, val |-> Null, exp |-> 0,
             at |-> 0, victim |-> "", lru |-> ""]

\* the keys still cached, in their order of last use, k (when cached) used last
Touch(m, cache, k) ==
    LET kept == SelectSeq(m, LAMBDA x : x # k /\ x \in MapKeys(cache))
    IN IF k \in MapKeys(cache) THEN Append(kept, k) ELSE kept

\* the keys still cached, in their order of last use
Keep(m, cache) == SelectSeq(m, LAMBDA x : x \in MapKeys(cache))

ExpiresOfKey(cache, k) ==
    IF MapHas(cache, k) THEN cache[MapIndex(cache, k)].expires ELSE 0

MGet(k) ==
    /\ l1' = MemGetCache(l1, k, now)
    /\ mru' = Touch(mru, l1', k)
    /\ memRet' = [NoMemRet EXCEPT !.op = "get", !.key = k,
                    !.val = MemGetValue(l1, k, now),
                    !.hit = (MemGetValue(l1, k, now) # Null),
                    !.exp = ExpiresOfKey(l1, k), !.at = now]
    /\ UNCHANGED <<now, engineVars>>

MSet(k, v, ttl) ==
    /\ l1' = MemSet(l1, k, v, ttl, now, MaxSize)
    /\ mru' = Touch(mru, l1', k)
    /\ memRet' = [NoMemRet EXCEPT !.op = "set", !.key = k, !.at = now,
                    !.victim = IF MapKeys(l1) \ MapKeys(l1') = {} THEN ""
                               ELSE CHOOSE x \in MapKeys(l1) \ MapKeys(l1') : TRUE,
                    !.lru = IF mru = <<>> THEN "" ELSE Head(mru)]
    /\ UNCHANGED <<now, engineVars>>

MDelete(k) ==
    /\ l1' = MemDelete(l1, k)
    /\ mru' = Keep(mru, l1')
    /\ memRet' = [NoMemRet EXCEPT !.op = "delete", !.key = k, !.at = now]
    /\ UNCHANGED <<now, engineVars>>

MExists(k) ==
    /\ l1' = MemExistsCache(l1, k, now)
    /\ mru' = Keep(mru, l1')
    /\ memRet' = [NoMemRet EXCEPT !.op = "exists", !.key = k,
                    !.hit = MemExistsValue(l1, k, now),
                    !.exp = ExpiresOfKey(l1, k), !.at = now]
    /\ UNCHANGED <<now, engineVars>>

MCleanup ==
    /\ l1' = MemCleanup(l1, now)
    /\ mru' = Keep(mru, l1')
    /\ memRet' = [NoMemRet EXCEPT !.op = "cleanup", !.at = now]
    /\ UNCHANGED <<now, engineVars>>

MPing ==
    /\ l1' = MemPing(l1)
    /\ mru' = Keep(mru, l1')
    /\ memRet' = [NoMemRet EXCEPT !.op = "ping", !.hit = TRUE, !.at = now]
    /\ UNCHANGED <<now, engineVars>>

IdleCall == [op |-> "none", key |-> "", val |-> 0, ttl |-> 0, layer |-> NoLayer,
             pc |-> "idle", data |-> Null, ok |-> FALSE, threw |-> FALSE, ret |-> Null,
             pend |-> {}, sel |-> Null, snap |-> Null, input |-> <<>>, todo |-> <<>>, results |-> <<>>, single |-> <<>>, checked |-> {}, healthy |-> {}, empty |-> FALSE, given |-> 0, before |-> Null, gen |-> 0, seen |-> FALSE, first |-> {}, after |-> {}, dirty |-> FALSE, at |-> 0, endAt |-> 0]

\* the state after construction: nothing stored, nothing connected, the
\* cleanup timer started; cfg2 and cfg3 are the configurations tried
InitEngine(cfg2, cfg3) ==
    /\ now = 0
    /\ l1 = <<>>
    /\ l2 = EmptyStore
    /\ l3 = EmptyStore
    /\ l2Redis \in cfg2
    /\ l3Postgres \in cfg3
    /\ l2conn = FALSE
    /\ l3conn = FALSE
    /\ connected = FALSE
    /\ cleanupTimer = TRUE
    /\ calls = [p \in Procs |-> IdleCall]
    /\ mru = <<>>
    /\ memRet = NoMemRet
    /\ instance = Null
    /\ created = 0
    /\ initialized = FALSE
    /\ pool = FALSE

\* owns: the ways the L3 pool is obtained that are tried, TRUE for a pool
\* the engine creates from the configuration, FALSE for one the caller gives
InitPool(owns) ==
    /\ ownsPool \in IF l3Postgres THEN owns ELSE {FALSE}
    /\ openPools = IF l3Postgres /\ ~ownsPool THEN {GivenPool} ELSE {}

\* fs: the contents of nuvex-backups/ that are tried
InitFiles(fs) == files \in fs

\* the counters grow without bound: the specifications that are not about
\* them do not follow them
InitCfg(cfg2, cfg3) ==
    /\ InitEngine(cfg2, cfg3)
    /\ InitPool({TRUE})
    /\ InitFiles({Null})
    /\ metrics = Unmetered

InitMem == InitCfg({FALSE}, {FALSE})

NextMem ==
    \/ \E k \in Keys : MGet(k)
    \/ \E k \in Keys, v \in SetValues, ttl \in TTLs : MSet(k, v, ttl)
    \/ \E k \in Keys : MDelete(k)
    \/ \E k \in Keys : MExists(k)
    \/ MCleanup
    \/ MPing
    \/ Tick

\* the MemoryStorage layer on its own
SpecMem == InitMem /\ [][NextMem]_vars

\* C8: whenever a set evicts, the victim is the least recently used key,
\* a use being a get hit or a set (of a new key or of one already cached)
C8_VictimIsLeastRecentlyUsed ==
    (memRet.op = "set" /\ memRet.victim # "") => memRet.victim = memRet.lru

\* C9 (L1): a get or exists that answers for an entry with an expiry answers
\* strictly before that expiry
C9_ReturnedStrictlyBeforeExpiry ==
    (memRet.op \in {"get", "exists"} /\ memRet.hit /\ memRet.exp # 0)
        => memRet.at < memRet.exp

(***************************************************************************)
(* StorageEngine calls.  A caller's slot holds its call: the arguments,    *)
(* the position (pc), the value in hand (data) and, once pc = "done", the  *)
(* result: ok is the boolean returned (for get and increment: returned     *)
(* rather than came back empty / threw), ret the value returned, threw     *)
(* whether the call ended in an exception thrown to the caller.            *)
(*   after: the callers whose calls had returned when this call started    *)
(*   dirty: another set, delete or increment of the same key was in flight *)
(*          when this call started, or has started since                   *)
(*   at, endAt: the clock when the call started and when it returned       *)
(*   gen: alternates from one call of a caller to its next                 *)
(*   empty: no layer held a key when this restore went on to its entries   *)
(*   given: the ttl argument as increment was given it (ttl is the TTL it  *)
(*          passes to the layers)                                          *)
(*   before: the value the authoritative layer had for the key when this   *)
(*          increment started                                              *)
(*   seen: a default get of the key has started since this call returned   *)
(*   first: the callers whose returned calls this get is the first default *)
(*          get of the key to follow                                       *)
(***************************************************************************)
IsWriter(c) == c.op \in {"set", "delete", "increment", "expire", "setIfNotExists"}

IsDefaultGet(c) == c.op = "get" /\ c.layer = NoLayer

InFlight(c) == c.pc \notin {"idle", "done"}

CanStart(p) == ~InFlight(calls[p])

NewCall(op, k, v, ttl, layer) ==
    [IdleCall EXCEPT !.op = op, !.key = k, !.val = v, !.ttl = ttl, !.layer = layer]

\* the call returns
Return(c, ok, ret) == [c EXCEPT !.pc = "done", !.ok = ok, !.ret = ret, !.endAt = now]

IsBatch(c) == c.op \in {"setBatch", "getBatch", "deleteBatch"}

\* a single-key operation has its result: a call of that operation returns
\* it; a batch pushes it as the result of its current entry and goes on to
\* the next entry, returning after the last; backup and restore end with
\* a set of their metadata, whose result they do not look at: backup
\* returns its id, restore whether every entry was restored
Done(c, ok, ret) ==
    IF IsBatch(c)
    THEN LET d == [c EXCEPT !.results = Append(@, [key |-> c.key, success |-> ok]),
                            !.todo = Tail(@)]
         IN IF d.todo = <<>> THEN Return(d, TRUE, Null)
            ELSE [d EXCEPT !.pc = "batch_next"]
    ELSE IF c.op = "backup"
    THEN Return(c, TRUE, Null)
    ELSE IF c.op = "restore"
    THEN Return(c, \A i \in 1..Len(c.results) : c.results[i].success, Null)
    ELSE Return(c, ok, ret)

\* the call ends in an exception thrown to the caller
Thrown(c) == [Done(c, FALSE, Null) EXCEPT !.threw = TRUE]

\* the slots once caller p has started call c
Begin(p, c) ==
    [q \in Procs |->
        IF q = p
        THEN [c EXCEPT !.at = now,
                       !.gen = 1 - calls[p].gen,
                       !.after = {r \in Procs \ {p} : calls[r].pc = "done"},
                       !.first = {r \in Procs \ {p} : /\ calls[r].pc = "done"
                                                      /\ calls[r].key = c.key
                                                      /\ ~calls[r].seen},
                       !.dirty = \E r \in Procs \ {p} :
                                    /\ InFlight(calls[r])
                                    /\ IsWriter(calls[r])
                                    /\ calls[r].key = c.key]
        ELSE [calls[q] EXCEPT !.after = @ \ {p},
                              !.first = @ \ {p},
                              !.seen = @ \/ (/\ IsDefaultGet(c)
                                             /\ calls[q].pc = "done"
                                             /\ calls[q].key = c.key),
                              !.dirty = @ \/ (IsWriter(c) /\ calls[q].key = c.key)]]

\* the slots once caller p's call has moved on to c
Upd(p, c) == [calls EXCEPT ![p] = c]

\* this step is the one in which caller p's call returns
Returns(p) ==
    /\ calls'[p].pc = "done"
    /\ calls[p].pc # "done" \/ calls[p].gen # calls'[p].gen

ghostVars == <<mru, memRet>>
cfgVars == <<l2Redis, l3Postgres, l2conn, l3conn, connected, cleanupTimer>>

(***************************************************************************)
(* connect()                                                               *)
(***************************************************************************)
\* new Pool(config): the pool the engine referred to, when still open, is
\* open and out of reach
NewPool(open) ==
    (IF OwnPool \in open THEN open \cup {ReplacedPool} ELSE open) \cup {OwnPool}

\* Connect with L2 kept after its connection attempt has failed
ConnectKeepsL2(ok2, ok3) ==
    /\ l2Redis' = l2Redis
    /\ l2conn' = IF l2Redis THEN ok2 ELSE l2conn
    /\ l3conn' = IF l3Postgres THEN ok3 ELSE l3conn
    /\ connected' = IF l3Postgres => ok3 THEN TRUE ELSE connected
    /\ pool' = (pool \/ l3Postgres)
    /\ openPools' = IF l3Postgres /\ ownsPool THEN NewPool(openPools) ELSE openPools
    /\ UNCHANGED <<now, l1, l2, l3, l3Postgres, cleanupTimer, calls, clientVars, ownsPool, ghostVars,
                   metrics>>

\* ok2, ok3: whether the Redis and the PostgreSQL connection attempts succeed.
\* PostgresStorage.connect takes the caller's pool or creates a new one.
ConnectEngine(ok2, ok3) ==
    /\ l2Redis' = (l2Redis /\ ok2)
    /\ l2conn' = IF l2Redis THEN ok2 ELSE l2conn
    /\ l3conn' = IF l3Postgres THEN ok3 ELSE l3conn
    /\ connected' = IF l3Postgres => ok3 THEN TRUE ELSE connected
    /\ pool' = (pool \/ l3Postgres)
    /\ openPools' = IF l3Postgres /\ ownsPool THEN NewPool(openPools) ELSE openPools
    /\ UNCHANGED <<now, l1, l2, l3, l3Postgres, cleanupTimer, ownsPool, ghostVars,
                   metrics>>

Connect(ok2, ok3) == ConnectEngine(ok2, ok3) /\ UNCHANGED <<calls, clientVars>>

\* disconnect(): L2 closed, then L3 closed, then the cleanup timer cleared and
\* the engine marked not connected; L1 is kept.  What a layer's disconnect
\* throws is thrown to the caller, with the steps after it not taken.
\* PostgresStorage.disconnect ends the pool only when the engine created it.
\* ok2, ok3: whether closing the Redis client and the PostgreSQL pool succeed
DisconnectThrows(ok2, ok3) ==
    \/ l2Redis /\ l2conn /\ ~ok2
    \/ l3Postgres /\ pool /\ ownsPool /\ ~ok3

DisconnectEngine(ok2, ok3) ==
    LET threw2 == l2Redis /\ l2conn /\ ~ok2
        ends3 == ~threw2 /\ l3Postgres /\ pool /\ ownsPool
        threw3 == ends3 /\ ~ok3
    IN /\ openPools' = IF ends3 /\ ok3 THEN openPools \ {OwnPool} ELSE openPools
       /\ l2conn' = IF threw2 THEN l2conn ELSE FALSE
       /\ l3conn' = IF threw2 \/ threw3 THEN l3conn ELSE FALSE
       /\ cleanupTimer' = IF threw2 \/ threw3 THEN cleanupTimer ELSE FALSE
       /\ connected' = IF threw2 \/ threw3 THEN connected ELSE FALSE
       /\ UNCHANGED <<now, l1, l2, l3, l2Redis, l3Postgres, ownsPool, pool,
                      ghostVars, metrics>>

Disconnect(p, ok2, ok3) ==
    LET c == NewCall("disconnect", "", 0, 0, NoLayer)
    IN /\ CanStart(p)
       /\ DisconnectEngine(ok2, ok3)
       /\ calls' = Begin(p, IF DisconnectThrows(ok2, ok3) THEN Thrown(c)
                            ELSE Done(c, TRUE, Null))
       /\ UNCHANGED clientVars

(***************************************************************************)
(* set(key, value, options)                                                *)
(***************************************************************************)
\* StartSet with the caches written before the L3 write is known to succeed
StartSetCachesFirst(p, k, v, ttl, ok) ==
    LET c == NewCall("set", k, v, ttl, NoLayer)
    IN /\ CanStart(p)
       /\ IF ~connected
          THEN /\ calls' = Begin(p, Done(c, FALSE, Null))
               /\ UNCHANGED <<l1, l3>>
          ELSE /\ l1' = MemSet(l1, k, v, ttl, now, MaxSize)
               /\ IF l3Postgres /\ ~(l3conn /\ ok)
                  THEN /\ calls' = Begin(p, Done(c, FALSE, Null))
                       /\ UNCHANGED l3
                  ELSE /\ l3' = IF l3Postgres THEN PgSet(l3, k, v, ttl, now) ELSE l3
                       /\ calls' = Begin(p, IF l2Redis THEN [c EXCEPT !.pc = "set_l2"]
                                            ELSE Done(c, TRUE, Null))
       /\ UNCHANGED <<now, l2, cfgVars, clientVars, poolVars, ghostVars>>
       /\ metrics' = (IF connected THEN Count(metrics, {"totalOperations"}) ELSE metrics)

\* the default path: L3 first, then the caches
\* ok: whether the PostgreSQL write succeeds
StartSet(p, k, v, ttl, ok) ==
    LET c == NewCall("set", k, v, ttl, NoLayer)
    IN /\ CanStart(p)
       /\ IF ~connected
          THEN /\ calls' = Begin(p, Done(c, FALSE, Null))
               /\ UNCHANGED <<l1, l3>>
          ELSE IF l3Postgres
          THEN IF l3conn /\ ok
               THEN /\ l3' = PgSet(l3, k, v, ttl, now)
                    /\ calls' = Begin(p, [c EXCEPT !.pc = "set_l1"])
                    /\ UNCHANGED l1
               ELSE /\ calls' = Begin(p, Done(c, FALSE, Null))
                    /\ UNCHANGED <<l1, l3>>
          ELSE /\ l1' = MemSet(l1, k, v, ttl, now, MaxSize)
               /\ calls' = Begin(p, IF l2Redis THEN [c EXCEPT !.pc = "set_l2"]
                                    ELSE Done(c, TRUE, Null))
               /\ UNCHANGED l3
       /\ UNCHANGED <<now, l2, cfgVars, clientVars, poolVars, ghostVars>>
       /\ metrics' = (IF connected THEN Count(metrics, {"totalOperations"}) ELSE metrics)

\* the fan-out after the L3 write: L1 at once, the L2 request sent
SetFanoutL1(p) ==
    LET c == calls[p]
    IN /\ c.pc = "set_l1"
       /\ l1' = MemSet(l1, c.key, c.val, c.ttl, now, MaxSize)
       /\ calls' = Upd(p, IF l2Redis THEN [c EXCEPT !.pc = "set_l2"]
                          ELSE Done(c, TRUE, Null))
       /\ UNCHANGED <<now, l2, l3, cfgVars, clientVars, poolVars, ghostVars, metrics>>

\* the L2 write of the fan-out, best effort
SetFanoutL2(p, ok) ==
    LET c == calls[p]
    IN /\ c.pc = "set_l2"
       /\ l2' = RedisSet(l2conn /\ ok, l2, c.key, c.val, c.ttl, now)
       /\ calls' = Upd(p, Done(c, TRUE, Null))
       /\ UNCHANGED <<now, l1, l3, cfgVars, clientVars, poolVars, ghostVars, metrics>>

\* SetLayer with L1 written as well, whatever the layer asked for
SetLayerWithL1(p, k, v, ttl, layer, ok) ==
    LET c == NewCall("set", k, v, ttl, layer)
        threw == layer = LayerPostgres /\ l3Postgres /\ ~(l3conn /\ ok)
    IN /\ CanStart(p)
       /\ layer # NoLayer
       /\ l1' = IF connected /\ ~threw
                THEN MemSet(l1, k, v, ttl, now, MaxSize) ELSE l1
       /\ l2' = IF connected /\ layer = LayerRedis /\ l2Redis
                THEN RedisSet(l2conn /\ ok, l2, k, v, ttl, now) ELSE l2
       /\ l3' = IF connected /\ layer = LayerPostgres /\ l3Postgres /\ ~threw
                THEN PgSet(l3, k, v, ttl, now) ELSE l3
       /\ calls' = Begin(p, Done(c, connected /\ ~threw, Null))
       /\ UNCHANGED <<now, cfgVars, clientVars, poolVars, ghostVars>>
       /\ metrics' = (IF connected THEN Count(metrics, {"totalOperations"}) ELSE metrics)

\* SetLayer without the check that the engine is connected
SetLayerUnchecked(p, k, v, ttl, layer, ok) ==
    LET c == NewCall("set", k, v, ttl, layer)
        threw == layer = LayerPostgres /\ l3Postgres /\ ~(l3conn /\ ok)
    IN /\ CanStart(p)
       /\ layer # NoLayer
       /\ l1' = IF layer = LayerMemory
                THEN MemSet(l1, k, v, ttl, now, MaxSize) ELSE l1
       /\ l2' = IF layer = LayerRedis /\ l2Redis
                THEN RedisSet(l2conn /\ ok, l2, k, v, ttl, now) ELSE l2
       /\ l3' = IF layer = LayerPostgres /\ l3Postgres /\ ~threw
                THEN PgSet(l3, k, v, ttl, now) ELSE l3
       /\ calls' = Begin(p, Done(c, ~threw, Null))
       /\ UNCHANGED <<now, cfgVars, clientVars, poolVars, ghostVars>>
       /\ metrics' = Count(metrics, {"totalOperations"})

\* options.layer given: the write goes to that layer alone
SetLayer(p, k, v, ttl, layer, ok) ==
    LET c == NewCall("set", k, v, ttl, layer)
        threw == layer = LayerPostgres /\ l3Postgres /\ ~(l3conn /\ ok)
    IN /\ CanStart(p)
       /\ layer # NoLayer
       /\ l1' = IF connected /\ layer = LayerMemory
                THEN MemSet(l1, k, v, ttl, now, MaxSize) ELSE l1
       /\ l2' = IF connected /\ layer = LayerRedis /\ l2Redis
                THEN RedisSet(l2conn /\ ok, l2, k, v, ttl, now) ELSE l2
       /\ l3' = IF connected /\ layer = LayerPostgres /\ l3Postgres /\ ~threw
                THEN PgSet(l3, k, v, ttl, now) ELSE l3
       /\ calls' = Begin(p, Done(c, connected /\ ~threw, Null))
       /\ UNCHANGED <<now, cfgVars, clientVars, poolVars, ghostVars>>
       /\ metrics' = (IF connected THEN Count(metrics, {"totalOperations"}) ELSE metrics)

(***************************************************************************)
(* get(key, options), and the get that promote starts with                 *)
(***************************************************************************)
\* the cascade has its answer: get returns it, promote goes on to its write
FinishGet(c, val) ==
    IF c.op = "promote"
    THEN IF val = Null THEN Done(c, FALSE, Null)
         ELSE [c EXCEPT !.pc = "pro_set", !.data = val]
    ELSE IF c.op = "expire"
    THEN IF val = Null THEN Done(c, FALSE, Null)
         ELSE [c EXCEPT !.pc = "then_set", !.val = CHOOSE v \in val : TRUE]
    ELSE IF c.op = "restore"
    THEN Return(c, FALSE, Null)
    ELSE Done(c, val # Null, val)

\* after an L1 miss (or an L2 miss when from = "l2"): the next layer to ask
AfterMiss(c, from) ==
    IF from = "l1" /\ l2Redis THEN [c EXCEPT !.pc = "get_l2"]
    ELSE IF l3Postgres THEN [c EXCEPT !.pc = "get_l3"]
    ELSE FinishGet(c, Null)

\* the cascade's first step: L1
Cascade(p, c) ==
    /\ CanStart(p)
    /\ l1' = MemGetCache(l1, c.key, now)
    /\ calls' = Begin(p, IF MemGetValue(l1, c.key, now) # Null
                         THEN FinishGet(c, MemGetValue(l1, c.key, now))
                         ELSE AfterMiss(c, "l1"))
    /\ UNCHANGED <<now, l2, l3, cfgVars, clientVars, poolVars, ghostVars>>
    /\ metrics' = Count(metrics, {"totalOperations",
                          IF MemGetValue(l1, c.key, now) # Null
                          THEN "memoryHits" ELSE "memoryMisses"})

\* get on the default path
StartGet(p, k) == Cascade(p, NewCall("get", k, 0, 0, NoLayer))

\* L1 missed: ask L2
GetL2(p, ok) ==
    LET c == calls[p]
        data == RedisGet(l2conn /\ ok, l2, c.key, now)
    IN /\ c.pc = "get_l2"
       /\ calls' = Upd(p, IF data # Null
                          THEN [c EXCEPT !.pc = "get_warm_l1", !.data = data]
                          ELSE AfterMiss(c, "l2"))
       /\ UNCHANGED <<now, l1, l2, l3, cfgVars, clientVars, poolVars, ghostVars>>
       /\ metrics' = Count(metrics, {IF data # Null THEN "redisHits" ELSE "redisMisses"})

\* L2 hit: warm L1 with the default TTL and return
GetWarmFromL2(p) ==
    LET c == calls[p]
    IN /\ c.pc = "get_warm_l1"
       /\ l1' = MemSet(l1, c.key, CHOOSE v \in c.data : TRUE, DefaultTTL, now, MaxSize)
       /\ calls' = Upd(p, FinishGet(c, c.data))
       /\ UNCHANGED <<now, l2, l3, cfgVars, clientVars, poolVars, ghostVars, metrics>>

\* L1 and L2 missed: ask L3
GetL3(p, ok) ==
    LET c == calls[p]
        data == PgGet(l3conn /\ ok, l3, c.key, now)
    IN /\ c.pc = "get_l3"
       /\ calls' = Upd(p, IF data # Null
                          THEN [c EXCEPT !.pc = "get_warm_l3", !.data = data]
                          ELSE FinishGet(c, Null))
       /\ UNCHANGED <<now, l1, l2, l3, cfgVars, clientVars, poolVars, ghostVars>>
       /\ metrics' = Count(metrics, {IF data # Null THEN "postgresHits" ELSE "postgresMisses"})

\* GetWarmFromL3 with the L1 warm left out
GetWarmFromL3NoL1(p) ==
    LET c == calls[p]
    IN /\ c.pc = "get_warm_l3"
       /\ calls' = Upd(p, IF l2Redis THEN [c EXCEPT !.pc = "get_warm_l2"]
                          ELSE FinishGet(c, c.data))
       /\ UNCHANGED <<now, l1, l2, l3, cfgVars, clientVars, poolVars, ghostVars, metrics>>

\* L3 hit: warm L1 at once, the L2 warm request sent
GetWarmFromL3(p) ==
    LET c == calls[p]
    IN /\ c.pc = "get_warm_l3"
       /\ l1' = MemSet(l1, c.key, CHOOSE v \in c.data : TRUE, DefaultTTL, now, MaxSize)
       /\ calls' = Upd(p, IF l2Redis THEN [c EXCEPT !.pc = "get_warm_l2"]
                          ELSE FinishGet(c, c.data))
       /\ UNCHANGED <<now, l2, l3, cfgVars, clientVars, poolVars, ghostVars, metrics>>

\* the L2 warm after an L3 hit, best effort
GetWarmL2(p, ok) ==
    LET c == calls[p]
    IN /\ c.pc = "get_warm_l2"
       /\ l2' = RedisSet(l2conn /\ ok, l2, c.key, CHOOSE v \in c.data : TRUE,
                         DefaultTTL, now)
       /\ calls' = Upd(p, FinishGet(c, c.data))
       /\ UNCHANGED <<now, l1, l3, cfgVars, clientVars, poolVars, ghostVars, metrics>>

\* options.layer given: that layer alone answers
GetLayer(p, k, layer, ok) ==
    LET c == NewCall("get", k, 0, 0, layer)
        val == IF layer = LayerMemory THEN MemGetValue(l1, k, now)
               ELSE IF layer = LayerRedis
               THEN (IF l2Redis THEN RedisGet(l2conn /\ ok, l2, k, now) ELSE Null)
               ELSE (IF l3Postgres THEN PgGet(l3conn /\ ok, l3, k, now) ELSE Null)
    IN /\ CanStart(p)
       /\ layer # NoLayer
       /\ l1' = IF layer = LayerMemory THEN MemGetCache(l1, k, now) ELSE l1
       /\ calls' = Begin(p, Done(c, val # Null, val))
       /\ UNCHANGED <<now, l2, l3, cfgVars, clientVars, poolVars, ghostVars>>
       /\ metrics' = Count(metrics, {"totalOperations"})

\* options.skipCache with L3 configured: L3 alone answers
GetSkipCache(p, k, ok) ==
    LET c == NewCall("get", k, 0, 0, LayerPostgres)
        val == PgGet(l3conn /\ ok, l3, k, now)
    IN /\ CanStart(p)
       /\ l3Postgres
       /\ calls' = Begin(p, Done(c, val # Null, val))
       /\ UNCHANGED <<now, l1, l2, l3, cfgVars, clientVars, poolVars, ghostVars>>
       /\ metrics' = Count(metrics, {"totalOperations"})

(***************************************************************************)
(* promote(key, targetLayer) and demote(key, targetLayer)                  *)
(***************************************************************************)
StartPromote(p, k, target) == Cascade(p, NewCall("promote", k, 0, 0, target))

\* the value read is written to the target layer, without a TTL
PromoteSet(p, ok) ==
    LET c == calls[p]
        v == CHOOSE x \in c.data : TRUE
        threw == c.layer = LayerPostgres /\ l3Postgres /\ ~(l3conn /\ ok)
        missing == \/ c.layer = LayerRedis /\ ~l2Redis
                   \/ c.layer = LayerPostgres /\ ~l3Postgres
    IN /\ c.pc = "pro_set"
       /\ l1' = IF c.layer = LayerMemory
                THEN MemSet(l1, c.key, v, 0, now, MaxSize) ELSE l1
       /\ l2' = IF c.layer = LayerRedis /\ l2Redis
                THEN RedisSet(l2conn /\ ok, l2, c.key, v, 0, now) ELSE l2
       /\ l3' = IF c.layer = LayerPostgres /\ l3Postgres /\ ~threw
                THEN PgSet(l3, c.key, v, 0, now) ELSE l3
       /\ calls' = Upd(p, Done(c, ~threw /\ ~missing, Null))
       /\ UNCHANGED <<now, cfgVars, clientVars, poolVars, ghostVars, metrics>>

\* demote removes the key from the layers above the target
StartDemote(p, k, target) ==
    LET c == NewCall("demote", k, 0, 0, target)
    IN /\ CanStart(p)
       /\ target \in {LayerMemory, LayerRedis, LayerPostgres}
       /\ l1' = IF target = LayerMemory THEN l1 ELSE MemDelete(l1, k)
       /\ calls' = Begin(p, IF target = LayerPostgres /\ l2Redis
                            THEN [c EXCEPT !.pc = "dem_l2"]
                            ELSE Done(c, target # LayerMemory, Null))
       /\ UNCHANGED <<now, l2, l3, cfgVars, clientVars, poolVars, ghostVars, metrics>>

DemoteL2(p, ok) ==
    LET c == calls[p]
    IN /\ c.pc = "dem_l2"
       /\ l2' = RedisDelete(l2conn /\ ok, l2, c.key)
       /\ calls' = Upd(p, Done(c, TRUE, Null))
       /\ UNCHANGED <<now, l1, l3, cfgVars, clientVars, poolVars, ghostVars, metrics>>

(***************************************************************************)
(* delete(key, options)                                                    *)
(***************************************************************************)
\* the default path: L1 at once, the L2 and L3 deletes sent together
StartDelete(p, k) ==
    LET c == NewCall("delete", k, 0, 0, NoLayer)
        pend == (IF l2Redis THEN {LayerRedis} ELSE {})
                \cup (IF l3Postgres THEN {LayerPostgres} ELSE {})
    IN /\ CanStart(p)
       /\ l1' = MemDelete(l1, k)
       /\ calls' = Begin(p, IF pend = {} THEN Done(c, TRUE, Null)
                            ELSE [c EXCEPT !.pc = "del_wait", !.pend = pend])
       /\ UNCHANGED <<now, l2, l3, cfgVars, clientVars, poolVars, ghostVars>>
       /\ metrics' = Count(metrics, {"totalOperations"})

\* one of the pending deletes reaches its layer; failures are swallowed
DeleteLayerStep(p, layer, ok) ==
    LET c == calls[p]
        rest == c.pend \ {layer}
    IN /\ c.pc = "del_wait"
       /\ layer \in c.pend
       /\ l2' = IF layer = LayerRedis THEN RedisDelete(l2conn /\ ok, l2, c.key) ELSE l2
       /\ l3' = IF layer = LayerPostgres THEN PgDelete(l3conn /\ ok, l3, c.key) ELSE l3
       /\ calls' = Upd(p, IF rest = {} THEN Done(c, TRUE, Null)
                          ELSE [c EXCEPT !.pend = rest])
       /\ UNCHANGED <<now, l1, cfgVars, clientVars, poolVars, ghostVars, metrics>>

\* options.layer given: that layer alone, always true
DeleteLayer(p, k, layer, ok) ==
    LET c == NewCall("delete", k, 0, 0, layer)
    IN /\ CanStart(p)
       /\ layer # NoLayer
       /\ l1' = IF layer = LayerMemory THEN MemDelete(l1, k) ELSE l1
       /\ l2' = IF layer = LayerRedis /\ l2Redis
                THEN RedisDelete(l2conn /\ ok, l2, k) ELSE l2
       /\ l3' = IF layer = LayerPostgres /\ l3Postgres
                THEN PgDelete(l3conn /\ ok, l3, k) ELSE l3
       /\ calls' = Begin(p, Done(c, TRUE, Null))
       /\ UNCHANGED <<now, cfgVars, clientVars, poolVars, ghostVars>>
       /\ metrics' = Count(metrics, {"totalOperations"})

(***************************************************************************)
(* exists(key), expire(key, ttl) and the client's setIfNotExists(key,      *)
(* value): expire is a get followed by a set, setIfNotExists an exists     *)
(* followed by a set                                                       *)
(***************************************************************************)
\* the existence cascade has its answer: exists returns it, setIfNotExists
\* goes on to its set when the key was not found
FinishExists(c, found) ==
    IF c.op = "setIfNotExists"
    THEN IF found THEN Done(c, FALSE, Null) ELSE [c EXCEPT !.pc = "then_set"]
    ELSE IF c.op = "deleteBatch"
    THEN IF found THEN [c EXCEPT !.pc = "batch_delete"] ELSE Done(c, FALSE, Null)
    ELSE Done(c, found, Null)

\* the existence cascade's first step: L1
ExistsCascade(p, c) ==
    /\ CanStart(p)
    /\ l1' = MemExistsCache(l1, c.key, now)
    /\ calls' = Begin(p, IF MemExistsValue(l1, c.key, now) THEN FinishExists(c, TRUE)
                         ELSE IF l2Redis THEN [c EXCEPT !.pc = "ex_l2"]
                         ELSE IF l3Postgres THEN [c EXCEPT !.pc = "ex_l3"]
                         ELSE FinishExists(c, FALSE))
    /\ UNCHANGED <<now, l2, l3, cfgVars, clientVars, poolVars, ghostVars, metrics>>

StartExists(p, k) == ExistsCascade(p, NewCall("exists", k, 0, 0, NoLayer))

StartSetIfNotExists(p, k, v, ttl) ==
    ExistsCascade(p, NewCall("setIfNotExists", k, v, ttl, NoLayer))

\* L1 does not have the key: ask L2; a failure counts as not found
ExistsL2(p, ok) ==
    LET c == calls[p]
    IN /\ c.pc = "ex_l2"
       /\ calls' = Upd(p, IF RedisExists(l2conn /\ ok, l2, c.key, now)
                          THEN FinishExists(c, TRUE)
                          ELSE IF l3Postgres THEN [c EXCEPT !.pc = "ex_l3"]
                          ELSE FinishExists(c, FALSE))
       /\ UNCHANGED <<now, l1, l2, l3, cfgVars, clientVars, poolVars, ghostVars, metrics>>

\* L1 and L2 do not have the key: ask L3; a failure counts as not found
ExistsL3(p, ok) ==
    LET c == calls[p]
    IN /\ c.pc = "ex_l3"
       /\ calls' = Upd(p, FinishExists(c, PgExists(l3conn /\ ok, l3, c.key, now)))
       /\ UNCHANGED <<now, l1, l2, l3, cfgVars, clientVars, poolVars, ghostVars, metrics>>

\* setIfNotExists with options.layer: exists asks that layer alone; a layer
\* not configured, not connected or failing answers false
\* ok: whether the layer's request succeeds
StartSetIfNotExistsLayer(p, k, v, ttl, layer, ok) ==
    LET c == NewCall("setIfNotExists", k, v, ttl, layer)
        found == IF layer = LayerMemory THEN MemExistsValue(l1, k, now)
                 ELSE IF layer = LayerRedis
                 THEN l2Redis /\ RedisExists(l2conn /\ ok, l2, k, now)
                 ELSE l3Postgres /\ PgExists(l3conn /\ ok, l3, k, now)
    IN /\ CanStart(p)
       /\ layer # NoLayer
       /\ l1' = IF layer = LayerMemory THEN MemExistsCache(l1, k, now) ELSE l1
       /\ calls' = Begin(p, FinishExists(c, found))
       /\ UNCHANGED <<now, l2, l3, cfgVars, clientVars, poolVars, ghostVars, metrics>>

\* the set that ends a setIfNotExists with options.layer: the write goes to
\* that layer alone
\* ok: whether the layer's write succeeds
ThenSetLayer(p, ok) ==
    LET c == calls[p]
        threw == c.layer = LayerPostgres /\ l3Postgres /\ ~(l3conn /\ ok)
    IN /\ c.pc = "then_set"
       /\ c.layer # NoLayer
       /\ l1' = IF connected /\ c.layer = LayerMemory
                THEN MemSet(l1, c.key, c.val, c.ttl, now, MaxSize) ELSE l1
       /\ l2' = IF connected /\ c.layer = LayerRedis /\ l2Redis
                THEN RedisSet(l2conn /\ ok, l2, c.key, c.val, c.ttl, now) ELSE l2
       /\ l3' = IF connected /\ c.layer = LayerPostgres /\ l3Postgres /\ ~threw
                THEN PgSet(l3, c.key, c.val, c.ttl, now) ELSE l3
       /\ calls' = Upd(p, Done(c, connected /\ ~threw, Null))
       /\ UNCHANGED <<now, cfgVars, clientVars, poolVars, ghostVars>>
       /\ metrics' = (IF connected THEN Count(metrics, {"totalOperations"}) ELSE metrics)

StartExpire(p, k, ttl) == Cascade(p, NewCall("expire", k, 0, ttl, NoLayer))

\* ThenSet with the L3 write made without the TTL
ThenSetDropsTTL(p, ok) ==
    LET c == calls[p]
    IN /\ c.pc = "then_set"
       /\ c.layer = NoLayer
       /\ IF ~connected
          THEN /\ calls' = Upd(p, Done(c, FALSE, Null))
               /\ UNCHANGED <<l1, l3>>
          ELSE IF l3Postgres
          THEN IF l3conn /\ ok
               THEN /\ l3' = PgSet(l3, c.key, c.val, 0, now)
                    /\ calls' = Upd(p, [c EXCEPT !.pc = "set_l1"])
                    /\ UNCHANGED l1
               ELSE /\ calls' = Upd(p, Done(c, FALSE, Null))
                    /\ UNCHANGED <<l1, l3>>
          ELSE /\ l1' = MemSet(l1, c.key, c.val, c.ttl, now, MaxSize)
               /\ calls' = Upd(p, IF l2Redis THEN [c EXCEPT !.pc = "set_l2"]
                                  ELSE Done(c, TRUE, Null))
               /\ UNCHANGED l3
       /\ UNCHANGED <<now, l2, cfgVars, clientVars, poolVars, ghostVars>>
       /\ metrics' = (IF connected THEN Count(metrics, {"totalOperations"}) ELSE metrics)

\* ThenSet with a failed L3 write thrown to the caller
ThenSetThrows(p, ok) ==
    LET c == calls[p]
    IN /\ c.pc = "then_set"
       /\ c.layer = NoLayer
       /\ IF ~connected
          THEN /\ calls' = Upd(p, Done(c, FALSE, Null))
               /\ UNCHANGED <<l1, l3>>
          ELSE IF l3Postgres
          THEN IF l3conn /\ ok
               THEN /\ l3' = PgSet(l3, c.key, c.val, c.ttl, now)
                    /\ calls' = Upd(p, [c EXCEPT !.pc = "set_l1"])
                    /\ UNCHANGED l1
               ELSE /\ calls' = Upd(p, Thrown(c))
                    /\ UNCHANGED <<l1, l3>>
          ELSE /\ l1' = MemSet(l1, c.key, c.val, c.ttl, now, MaxSize)
               /\ calls' = Upd(p, IF l2Redis THEN [c EXCEPT !.pc = "set_l2"]
                                  ELSE Done(c, TRUE, Null))
               /\ UNCHANGED l3
       /\ UNCHANGED <<now, l2, cfgVars, clientVars, poolVars, ghostVars>>
       /\ metrics' = (IF connected THEN Count(metrics, {"totalOperations"}) ELSE metrics)

\* the set that ends expire and setIfNotExists (and backup and restore): the
\* default path of set, from its check of connected on; SetFanoutL1 and
\* SetFanoutL2 follow
\* ok: whether the PostgreSQL write succeeds
ThenSet(p, ok) ==
    LET c == calls[p]
    IN /\ c.pc = "then_set"
       /\ c.layer = NoLayer
       /\ IF ~connected
          THEN /\ calls' = Upd(p, Done(c, FALSE, Null))
               /\ UNCHANGED <<l1, l3>>
          ELSE IF l3Postgres
          THEN IF l3conn /\ ok
               THEN /\ l3' = PgSet(l3, c.key, c.val, c.ttl, now)
                    /\ calls' = Upd(p, [c EXCEPT !.pc = "set_l1"])
                    /\ UNCHANGED l1
               ELSE /\ calls' = Upd(p, Done(c, FALSE, Null))
                    /\ UNCHANGED <<l1, l3>>
          ELSE /\ l1' = MemSet(l1, c.key, c.val, c.ttl, now, MaxSize)
               /\ calls' = Upd(p, IF l2Redis THEN [c EXCEPT !.pc = "set_l2"]
                                  ELSE Done(c, TRUE, Null))
               /\ UNCHANGED l3
       /\ UNCHANGED <<now, l2, cfgVars, clientVars, poolVars, ghostVars>>
       /\ metrics' = (IF connected THEN Count(metrics, {"totalOperations"}) ELSE metrics)

(***************************************************************************)
(* increment(key, delta, ttl)                                              *)
(***************************************************************************)
\* recordMetric is called after the atomic increment; it does not throw
recordMetricThrows == FALSE

\* ttl in milliseconds becomes whole seconds, 0 when absent
TtlSeconds(ttlMs) == IF ttlMs # 0 THEN ttlMs \div MsPerSecond ELSE 0

\* StartIncrement with a failed increment taken for an increment from nothing
StartIncrementSwallows(p, k, delta, ttlMs, ok) ==
    LET ttl == TtlSeconds(ttlMs)
        c == [NewCall("increment", k, delta, ttl, NoLayer) EXCEPT !.given = ttlMs]
        viaL3 == l3Postgres
        viaL2 == ~l3Postgres /\ l2Redis
        done3 == viaL3 /\ l3conn /\ ok
        done2 == viaL2 /\ l2conn /\ ok
        newValue == IF viaL3 THEN PgIncrValue(l3, k, delta, now)
                    ELSE RedisIncrValue(l2, k, delta, now)
    IN /\ CanStart(p)
       /\ newValue <= MaxValue
       /\ l3' = IF done3 THEN PgIncrement(l3, k, delta, ttl, now) ELSE l3
       /\ l2' = IF done2 THEN RedisIncrement(l2, k, delta, ttl, now) ELSE l2
       /\ calls' = Begin(p,
            [c EXCEPT !.pc = IF viaL3 /\ l2Redis THEN "inc_l2" ELSE "inc_l1",
                      !.data = Some(IF done3 \/ done2 THEN newValue ELSE delta)])
       /\ UNCHANGED <<now, l1, cfgVars, clientVars, poolVars, ghostVars, metrics>>

\* the value the authoritative layer of increment holds for key k
AuthoritativeValue(k) ==
    IF l3Postgres THEN PgGet(TRUE, l3, k, now)
    ELSE IF l2Redis THEN RedisGet(TRUE, l2, k, now)
    ELSE Null

\* the atomic increment in the most authoritative layer; a failure is thrown.
\* L3 takes the increment and the expiry in one statement; L2 takes INCRBY
\* and, when there is a TTL, EXPIRE as a second request (IncExpire)
StartIncrement(p, k, delta, ttlMs, ok) ==
    LET ttl == TtlSeconds(ttlMs)
        c == [NewCall("increment", k, delta, ttl, NoLayer)
                 EXCEPT !.given = ttlMs, !.before = AuthoritativeValue(k)]
        viaL3 == l3Postgres
        viaL2 == ~l3Postgres /\ l2Redis
        done3 == viaL3 /\ l3conn /\ ok
        done2 == viaL2 /\ l2conn /\ ok
        newValue == IF viaL3 THEN PgIncrValue(l3, k, delta, now)
                    ELSE RedisIncrValue(l2, k, delta, now)
    IN /\ CanStart(p)
       /\ newValue <= MaxValue
       /\ l3' = IF done3 THEN PgIncrement(l3, k, delta, ttl, now) ELSE l3
       /\ l2' = IF done2 THEN RedisIncrement(l2, k, delta, 0, now) ELSE l2
       /\ calls' = Begin(p,
            IF done2 /\ ttl # 0
            THEN [c EXCEPT !.pc = "inc_expire", !.data = Some(newValue)]
            ELSE IF (done3 \/ done2) /\ ~recordMetricThrows
            THEN [c EXCEPT !.pc = IF viaL3 /\ l2Redis THEN "inc_l2" ELSE "inc_l1",
                           !.data = Some(newValue)]
            ELSE Thrown(c))
       /\ UNCHANGED <<now, l1, cfgVars, clientVars, poolVars, ghostVars, metrics>>

\* RedisStorage.increment, after INCRBY: EXPIRE with the TTL; a failure is
\* thrown
IncExpire(p, ok) ==
    LET c == calls[p]
        row == CHOOSE e \in l2[c.key] : TRUE
    IN /\ c.pc = "inc_expire"
       /\ l2' = IF l2conn /\ ok /\ RedisLive(l2, c.key, now) # {}
                THEN [l2 EXCEPT ![c.key] = {[row EXCEPT !.expires = ExpiryOf(c.ttl, now)]}]
                ELSE l2
       /\ calls' = Upd(p, IF l2conn /\ ok /\ ~recordMetricThrows
                          THEN [c EXCEPT !.pc = "inc_l1"]
                          ELSE Thrown(c))
       /\ UNCHANGED <<now, l1, l3, cfgVars, clientVars, poolVars, ghostVars, metrics>>

\* client.increment(key, delta, {ttl}): options.ttl is handed to the engine's
\* increment as its ttl argument
ClientIncrement(p, k, delta, ttl, ok) == StartIncrement(p, k, delta, ttl, ok)

\* the new value is written to L2
IncPropagateL2(p, ok) ==
    LET c == calls[p]
    IN /\ c.pc = "inc_l2"
       /\ l2' = RedisSet(l2conn /\ ok, l2, c.key, CHOOSE v \in c.data : TRUE, c.ttl, now)
       /\ calls' = Upd(p, [c EXCEPT !.pc = "inc_l1"])
       /\ UNCHANGED <<now, l1, l3, cfgVars, clientVars, poolVars, ghostVars, metrics>>

\* the new value is written to L1 and returned
IncPropagateL1(p) ==
    LET c == calls[p]
    IN /\ c.pc = "inc_l1"
       /\ l1' = MemSet(l1, c.key, CHOOSE v \in c.data : TRUE, c.ttl, now, MaxSize)
       /\ calls' = Upd(p, Done(c, TRUE, c.data))
       /\ UNCHANGED <<now, l2, l3, cfgVars, clientVars, poolVars, ghostVars, metrics>>

(***************************************************************************)
(* healthCheck(), the cleanup timer                                        *)
(***************************************************************************)
\* the layers argument: absent, or the layers named (one name is the list
\* of that name)
Selectors == {Null} \cup {Some(S) : S \in SUBSET Layers}

\* HealthCheck with every layer pinged and reported, whatever was requested
HealthCheckAllLayers(p, sel, ok2, ok3) ==
    LET c == NewCall("healthCheck", "", 0, 0, NoLayer)
        pong == {LayerMemory}
                \cup (IF l2Redis /\ l2conn /\ ok2 THEN {LayerRedis} ELSE {})
                \cup (IF l3Postgres /\ l3conn /\ ok3 THEN {LayerPostgres} ELSE {})
    IN /\ CanStart(p)
       /\ sel \in Selectors
       /\ l1' = MemPing(l1)
       /\ calls' = Begin(p, [Done(c, TRUE, Null)
                                EXCEPT !.sel = sel,
                                       !.checked = Layers,
                                       !.healthy = pong])
       /\ UNCHANGED <<now, l2, l3, cfgVars, clientVars, poolVars, ghostVars, metrics>>

\* the requested layers are pinged and the answers put in a map keyed by
\* their names: checked is the map's key set, healthy the keys mapped to true
\* ok2, ok3: whether the Redis and PostgreSQL pings succeed
HealthCheck(p, sel, ok2, ok3) ==
    LET c == NewCall("healthCheck", "", 0, 0, NoLayer)
        layersToCheck == IF sel = Null THEN Layers ELSE CHOOSE S \in sel : TRUE
        pong == {LayerMemory}
                \cup (IF l2Redis /\ l2conn /\ ok2 THEN {LayerRedis} ELSE {})
                \cup (IF l3Postgres /\ l3conn /\ ok3 THEN {LayerPostgres} ELSE {})
    IN /\ CanStart(p)
       /\ sel \in Selectors
       /\ l1' = IF LayerMemory \in layersToCheck THEN MemPing(l1) ELSE l1
       /\ calls' = Begin(p, [Done(c, TRUE, Null)
                                EXCEPT !.sel = sel,
                                       !.checked = layersToCheck,
                                       !.healthy = layersToCheck \cap pong])
       /\ UNCHANGED <<now, l2, l3, cfgVars, clientVars, poolVars, ghostVars, metrics>>

\* the interval started by the constructor fires: expired L1 entries go
CleanupTimerFires ==
    /\ cleanupTimer
    /\ l1' = MemCleanup(l1, now)
    /\ UNCHANGED <<now, l2, l3, cfgVars, calls, clientVars, poolVars, ghostVars, metrics>>

(***************************************************************************)
(* The engine with every configuration of the optional layers: one caller, *)
(* requests to the services that may fail one by one                       *)
(***************************************************************************)
Callers == {"p1"}
EngineKeys == {"a"}

Init == InitCfg(BOOLEAN, BOOLEAN)

Next ==
    \/ \E ok2, ok3 \in BOOLEAN : Connect(ok2, ok3)
    \/ \E p \in Callers, ok2, ok3 \in BOOLEAN : Disconnect(p, ok2, ok3)
    \/ \E p \in Callers, k \in EngineKeys, v \in SetValues, ok \in BOOLEAN :
          StartSet(p, k, v, 0, ok)
    \/ \E p \in Callers : SetFanoutL1(p)
    \/ \E p \in Callers, ok \in BOOLEAN : SetFanoutL2(p, ok)
    \/ \E p \in Callers, k \in EngineKeys, v \in SetValues, layer \in Layers,
          ok \in BOOLEAN : SetLayer(p, k, v, 0, layer, ok)
    \/ \E p \in Callers, k \in EngineKeys : StartDelete(p, k)
    \/ \E p \in Callers, layer \in Layers, ok \in BOOLEAN : DeleteLayerStep(p, layer, ok)
    \/ \E p \in Callers, k \in EngineKeys, layer \in Layers, ok \in BOOLEAN :
          DeleteLayer(p, k, layer, ok)

Spec == Init /\ [][Next]_vars

\* what a layer holds for k, read directly at time t
L1Holds(cache, k, v, t) == MemGetValue(cache, k, t) = Some(v)
L2Holds(store, k, v, t) == RedisGet(TRUE, store, k, t) = Some(v)
L3Holds(store, k, v, t) == PgGet(TRUE, store, k, t) = Some(v)

C2_TrueMeansAccepted ==
    [][\A p \in Callers :
          (Returns(p) /\ calls'[p].op = "set" /\ calls'[p].ok)
          => LET c == calls'[p]
             IN IF l3Postgres THEN L3Holds(l3', c.key, c.val, now')
                ELSE IF c.layer = LayerRedis THEN L2Holds(l2', c.key, c.val, now')
                ELSE IF c.layer = LayerPostgres THEN FALSE
                ELSE L1Holds(l1', c.key, c.val, now')]_vars

\* C14: a layer-targeted set returns true exactly when the write to the
\* targeted layer succeeded: after a true the layer is configured and holds
\* the value, and a false leaves the targeted layer as it was.
C14_LayerSetTrueIffWritten ==
    [][\A p \in Callers :
          (Returns(p) /\ calls'[p].op = "set" /\ calls'[p].layer # NoLayer)
          => LET c == calls'[p]
             IN IF c.ok
                THEN \/ c.layer = LayerMemory /\ L1Holds(l1', c.key, c.val, now')
                     \/ c.layer = LayerRedis /\ l2Redis
                          /\ L2Holds(l2', c.key, c.val, now')
                     \/ c.layer = LayerPostgres /\ l3Postgres
                          /\ L3Holds(l3', c.key, c.val, now')
                ELSE l1' = l1 /\ l2' = l2 /\ l3' = l3]_vars

\* C15: a set with options.layer = X changes no layer but X: the two other
\* layers are after the call exactly what they were before it.
C15_LayerSetTouchesOnlyTarget ==
    [][\A p \in Callers :
          (Returns(p) /\ calls'[p].op = "set" /\ calls'[p].layer # NoLayer)
          => /\ calls'[p].layer # LayerMemory => l1' = l1
             /\ calls'[p].layer # LayerRedis => l2' = l2
             /\ calls'[p].layer # LayerPostgres => l3' = l3]_vars

\* a set targeted at L2 has returned true with L2 holding the value while L1
\* and L3, both there, hold nothing for the key
C15_Witness ==
    \E p \in Callers :
        LET c == calls[p]
        IN /\ c.op = "set" /\ c.layer = LayerRedis /\ c.pc = "done" /\ c.ok
           /\ connected /\ l3Postgres /\ l3conn
           /\ L2Holds(l2, c.key, c.val, now)
           /\ MemGetValue(l1, c.key, now) = Null
           /\ PgGet(TRUE, l3, c.key, now) = Null

\* C16: when a default delete(k) returns true, with no other call in flight,
\* k is absent from L1, L2 and L3.
C16_DeletedEverywhere ==
    [][\A p \in Callers :
          (/\ Returns(p)
           /\ calls'[p].op = "delete" /\ calls'[p].layer = NoLayer
           /\ calls'[p].ok /\ ~calls'[p].dirty)
          => /\ MemGetValue(l1', calls'[p].key, now') = Null
             /\ RedisGet(TRUE, l2', calls'[p].key, now') = Null
             /\ PgGet(TRUE, l3', calls'[p].key, now') = Null]_vars

\* C19: whenever the engine is connected its L1 cleanup timer is running,
\* after a connect() that follows a disconnect() too.
C19_TimerRunsWhileConnected == connected => cleanupTimer

\* C20: a disconnect() leaves the cleanup timer stopped, L2 and L3
\* disconnected and the engine not connected; the timer is stopped even when
\* the disconnect of a layer fails.
C20_DisconnectStopsTimer ==
    [][\A p \in Callers :
          (Returns(p) /\ calls'[p].op = "disconnect")
          => /\ ~cleanupTimer'
             /\ calls'[p].ok => ~connected' /\ ~l2conn' /\ ~l3conn']_vars

\* C21: with L3 configured, a connect() whose L3 connect fails leaves the
\* engine not connected, from whatever state connect() was called.
C21_FailedL3ConnectNotConnected ==
    [][(l3Postgres /\ \E ok2 \in BOOLEAN : Connect(ok2, FALSE)) => ~connected']_vars

\* C39: a connect() that fails because L3 cannot connect leaves no L2
\* connection it opened itself: L2 is closed when the failure is thrown.
C39_FailedConnectClosesL2 ==
    [][(l3Postgres /\ l2Redis /\ Connect(TRUE, FALSE)) => ~l2conn']_vars

(***************************************************************************)
(* The engine over more keys than L1 holds: one caller, every operation    *)
(* that writes L1, the services up                                         *)
(***************************************************************************)
\* one key more than L1 holds
KeyNames == <<"a", "b", "c", "d">>
SizeKeys == {KeyNames[i] : i \in 1..(MaxSize + 1)}

InitSize == InitCfg(BOOLEAN, {TRUE})

NextSize ==
    \/ Connect(TRUE, TRUE)
    \/ \E k \in SizeKeys : StartSet("p1", k, 1, 0, TRUE)
    \/ SetFanoutL1("p1")
    \/ SetFanoutL2("p1", TRUE)
    \/ \E k \in SizeKeys : SetLayer("p1", k, 1, 0, LayerMemory, TRUE)
    \/ \E k \in SizeKeys : StartGet("p1", k)
    \/ GetL2("p1", TRUE)
    \/ GetWarmFromL2("p1")
    \/ GetL3("p1", TRUE)
    \/ GetWarmFromL3("p1")
    \/ GetWarmL2("p1", TRUE)
    \/ \E k \in SizeKeys : StartPromote("p1", k, LayerMemory)
    \/ PromoteSet("p1", TRUE)
    \/ StartIncrement("p1", "a", MaxValue, 0, TRUE)
    \/ IncPropagateL2("p1", TRUE)
    \/ IncPropagateL1("p1")
    \/ HealthCheck("p1", Null, TRUE, TRUE)
    \/ StartDemote("p1", "a", LayerPostgres)
    \/ DemoteL2("p1", TRUE)

SpecSize == InitSize /\ [][NextSize]_vars

\* C7: after any public operation (set, get with warming, promote, increment
\* propagation, healthCheck) L1 holds at most maxSize entries.
C7_L1WithinMaxSize == Len(l1) <= MaxSize

\* a get has returned a value it warmed into a full L1, and a key that L3
\* holds is no longer in L1
C7_Witness ==
    LET c == calls["p1"]
    IN /\ c.op = "get" /\ c.pc = "done" /\ c.ret # Null
       /\ Len(l1) = MaxSize
       /\ MapHas(l1, c.key)
       /\ ExpiresOfKey(l1, c.key) # 0
       /\ \E k \in SizeKeys : ~MapHas(l1, k) /\ l3[k] # {}

(***************************************************************************)
(* Two callers on one key with L3 configured and the services up: sets,    *)
(* gets and increments in every interleaving of their steps                *)
(***************************************************************************)
ConcCallers == {"p1", "p2"}

InitConc == InitCfg(BOOLEAN, {TRUE})

NextConc ==
    \/ Connect(TRUE, TRUE)
    \/ \E p \in ConcCallers, v \in SetValues : StartSet(p, "a", v, 0, TRUE)
    \/ \E p \in ConcCallers : SetFanoutL1(p)
    \/ \E p \in ConcCallers : SetFanoutL2(p, TRUE)
    \/ \E p \in ConcCallers : StartGet(p, "a")
    \/ \E p \in ConcCallers : GetL2(p, TRUE)
    \/ \E p \in ConcCallers : GetWarmFromL2(p)
    \/ \E p \in ConcCallers : GetL3(p, TRUE)
    \/ \E p \in ConcCallers : GetWarmFromL3(p)
    \/ \E p \in ConcCallers : GetWarmL2(p, TRUE)
    \/ \E p \in ConcCallers : StartIncrement(p, "a", 1, 0, TRUE)
    \/ \E p \in ConcCallers : IncPropagateL2(p, TRUE)
    \/ \E p \in ConcCallers : IncPropagateL1(p)

SpecConc == InitConc /\ [][NextConc]_vars

\* C3: once a default set(k, v) has returned true and no other set, delete
\* or increment of k has run beside it or started since, every default
\* get(k) that starts after the set returned yields v, whatever gets were in
\* flight while the set ran.
C3_GetAfterSetYieldsValue ==
    \A p, q \in ConcCallers :
        (/\ calls[p].op = "set" /\ calls[p].layer = NoLayer
         /\ calls[p].pc = "done" /\ calls[p].ok
         /\ ~calls[p].dirty
         /\ IsDefaultGet(calls[q]) /\ calls[q].pc = "done"
         /\ calls[q].key = calls[p].key
         /\ p \in calls[q].after)
        => calls[q].ret = Some(calls[p].val)

\* C35: once two default sets of one key with different values that ran
\* side by side have both returned true, L1 and L2 hold for the key the
\* value L3 holds
C35_ConcurrentSetsAgree ==
    \A p, q \in ConcCallers :
        (/\ p # q
         /\ calls[p].op = "set" /\ calls[p].layer = NoLayer
         /\ calls[q].op = "set" /\ calls[q].layer = NoLayer
         /\ calls[p].pc = "done" /\ calls[p].ok
         /\ calls[q].pc = "done" /\ calls[q].ok
         /\ calls[p].key = calls[q].key
         /\ calls[p].val # calls[q].val
         /\ p \notin calls[q].after /\ q \notin calls[p].after)
        => /\ MemGetValue(l1, calls[p].key, now) = PgGet(TRUE, l3, calls[p].key, now)
           /\ l2Redis => RedisGet(TRUE, l2, calls[p].key, now)
                         = PgGet(TRUE, l3, calls[p].key, now)

\* C5: after increment(k, d) has returned v with no other writer of k beside
\* it or since, the first default get(k) to start after it returns v.
C5_ReadAfterIncrementYieldsResult ==
    \A p, q \in ConcCallers :
        (/\ calls[p].op = "increment"
         /\ calls[p].pc = "done" /\ calls[p].ok
         /\ ~calls[p].dirty
         /\ IsDefaultGet(calls[q]) /\ calls[q].pc = "done"
         /\ p \in calls[q].first)
        => calls[q].ret = calls[p].ret

(***************************************************************************)
(* Concurrent increments of a key that does not exist yet: every caller    *)
(* increments at most once, and one of them may read instead               *)
(***************************************************************************)
IncCallers == {"p1", "p2", "p3"}
Reader == "p3"
Deltas == {1, 2}

InitInc == InitCfg(BOOLEAN, BOOLEAN)

NextInc ==
    \/ Connect(TRUE, TRUE)
    \/ \E p \in IncCallers, d \in Deltas :
          calls[p].pc = "idle" /\ \E ok \in BOOLEAN : StartIncrement(p, "a", d, 0, ok)
    \/ \E p \in IncCallers : IncPropagateL2(p, TRUE)
    \/ \E p \in IncCallers : IncPropagateL1(p)
    \/ calls[Reader].op # "increment" /\ StartGet(Reader, "a")
    \/ GetL2(Reader, TRUE)
    \/ GetWarmFromL2(Reader)
    \/ GetL3(Reader, TRUE)
    \/ GetWarmFromL3(Reader)
    \/ GetWarmL2(Reader, TRUE)

SpecInc == InitInc /\ [][NextInc]_vars

\* the increments that were made and have returned their new value
Incremented == {p \in IncCallers : /\ calls[p].op = "increment"
                                   /\ calls[p].pc = "done" /\ calls[p].ok}

RECURSIVE SumOfDeltas(_)
SumOfDeltas(S) ==
    IF S = {} THEN 0
    ELSE LET p == CHOOSE x \in S : TRUE
         IN calls[p].val + SumOfDeltas(S \ {p})

\* C4: n increments of one key with deltas d1..dn, starting from no value,
\* with L3 or L2 present: once all of them have returned, a default get of
\* the key returns d1 + ... + dn.
C4_GetReturnsSumOfDeltas ==
    LET r == calls[Reader]
    IN (/\ IsDefaultGet(r) /\ r.pc = "done"
        /\ Incremented # {}
        /\ Incremented \subseteq r.after
        /\ \A p \in IncCallers : calls[p].op = "increment" => p \in Incremented)
       => r.ret = Some(SumOfDeltas(Incremented))

\* C6: n increment(k, 1) calls on a key that does not exist return pairwise
\* distinct values, and once all have returned these are exactly 1..n.
C6_IncrementResultsDistinct ==
    (\A p \in IncCallers : calls[p].op = "increment" => calls[p].val = 1)
    => /\ \A p, q \in Incremented : p # q => calls[p].ret # calls[q].ret
       /\ (\A p \in IncCallers : calls[p].op = "increment" => calls[p].pc = "done")
          => UNION {calls[p].ret : p \in Incremented} = 1..Cardinality(Incremented)

\* three increments by 1 that ran side by side have returned 1, 2 and 3
C6_Witness ==
    /\ Incremented = IncCallers
    /\ \A p \in IncCallers : calls[p].val = 1
    /\ \A p, q \in IncCallers : p \notin calls[q].after
    /\ UNION {calls[p].ret : p \in IncCallers} = {1, 2, 3}

\* C17: with neither L3 nor L2 configured, increment(k, d) is served by L1:
\* it returns cur + d, where cur is what L1 held for k (0 when absent), and
\* L1 holds cur + d afterwards.
C17_L1ServesIncrement ==
    [][\A p \in IncCallers :
          (/\ Returns(p) /\ calls'[p].op = "increment"
           /\ ~l3Postgres /\ ~l2Redis)
          => LET c == calls'[p]
                 held == MemGetValue(l1, c.key, now)
                 cur == IF held = Null THEN 0 ELSE CHOOSE v \in held : TRUE
             IN /\ c.ok
                /\ c.ret = Some(cur + c.val)
                /\ L1Holds(l1', c.key, cur + c.val, now')]_vars

\* C18: an increment whose authoritative layer (L3, or L2 without L3) does
\* not take the increment, or that finds no such layer, throws in that step:
\* it returns no number and writes no cache; an increment that returns a
\* number returns the one its authoritative layer stored.
C18_FailedIncrementThrows ==
    [][\A p \in IncCallers :
          LET c == calls[p]
              d == calls'[p]
              taken == IF l3Postgres THEN l3' # l3 ELSE l2Redis /\ l2' # l2
          IN /\ (d.op = "increment" /\ d.gen # c.gen /\ ~taken)
                  => /\ d.pc = "done" /\ d.threw /\ ~d.ok /\ d.ret = Null
                     /\ l1' = l1 /\ l2' = l2 /\ l3' = l3
             /\ (d.op = "increment" /\ d.gen # c.gen /\ taken)
                  => /\ d.pc \in {"inc_l2", "inc_l1"}
                     /\ d.data = (IF l3Postgres THEN PgGet(TRUE, l3', d.key, now')
                                  ELSE RedisGet(TRUE, l2', d.key, now'))
             /\ (Returns(p) /\ d.op = "increment")
                  => IF d.ok THEN d.ret # Null /\ d.ret = c.data
                     ELSE d.ret = Null /\ ~InFlight(c)]_vars

\* an increment has thrown on a connected L3 that holds the key, while the
\* value another caller's increment left is still in L3 and in L1
C18_Witness ==
    \E p, q \in IncCallers :
        /\ calls[p].op = "increment" /\ calls[p].pc = "done" /\ ~calls[p].ok
        /\ calls[q].op = "increment" /\ calls[q].pc = "done" /\ calls[q].ok
        /\ q \in calls[p].after
        /\ l3Postgres /\ l3conn /\ connected
        /\ PgGet(TRUE, l3, calls[p].key, now) = calls[q].ret
        /\ MemGetValue(l1, calls[p].key, now) = calls[q].ret

(***************************************************************************)
(* One key written with a TTL while the clock runs: a caller that sets, a  *)
(* caller that reads, promotes and demotes, and the cleanup timer; the     *)
(* clock advances between operations, none of which spans a tick           *)
(***************************************************************************)
Setter == "p1"
Visitor == "p2"

InitTTL == InitCfg(BOOLEAN, {TRUE})

NextTTL ==
    \/ Connect(TRUE, TRUE)
    \/ StartSet(Setter, "a", 1, 1, TRUE)
    \/ SetFanoutL1(Setter)
    \/ SetFanoutL2(Setter, TRUE)
    \/ StartGet(Visitor, "a")
    \/ GetL2(Visitor, TRUE)
    \/ GetWarmFromL2(Visitor)
    \/ GetL3(Visitor, TRUE)
    \/ GetWarmFromL3(Visitor)
    \/ GetWarmL2(Visitor, TRUE)
    \/ \E layer \in {LayerMemory, LayerRedis} : StartPromote(Visitor, "a", layer)
    \/ PromoteSet(Visitor, TRUE)
    \/ \E layer \in {LayerRedis, LayerPostgres} : StartDemote(Visitor, "a", layer)
    \/ DemoteL2(Visitor, TRUE)
    \/ CleanupTimerFires
    \/ (\A p \in Procs : ~InFlight(calls[p])) /\ Tick

SpecTTL == InitTTL /\ [][NextTTL]_vars

\* C10: once a default set(k, v, {ttl: t}) has returned true and k is not
\* written again, every default get(k) issued more than t after the set
\* returned finds nothing, whatever reads, warmings, promotions or demotions
\* of k came before.
C10_AbsentAfterTTL ==
    \A p, q \in {Setter, Visitor} :
        (/\ calls[p].op = "set" /\ calls[p].layer = NoLayer
         /\ calls[p].pc = "done" /\ calls[p].ok
         /\ calls[p].ttl # 0
         /\ ~calls[p].dirty
         /\ IsDefaultGet(calls[q]) /\ calls[q].pc = "done"
         /\ calls[q].key = calls[p].key
         /\ p \in calls[q].after
         /\ calls[q].at > calls[p].endAt + (calls[p].ttl * MsPerSecond))
        => calls[q].ret = Null

(***************************************************************************)
(* One caller on one key with L3 configured, every request to a service    *)
(* able to fail: the ways a value reaches the caches                       *)
(***************************************************************************)
FlowCaller == "p1"
FlowKey == "a"

InitFlow == InitCfg(BOOLEAN, {TRUE})

NextFlow ==
    \/ Connect(TRUE, TRUE)
    \/ \E v \in SetValues, ok \in BOOLEAN : StartSet(FlowCaller, FlowKey, v, 0, ok)
    \/ SetFanoutL1(FlowCaller)
    \/ \E ok \in BOOLEAN : SetFanoutL2(FlowCaller, ok)
    \/ \E v \in SetValues, layer \in {LayerMemory, LayerRedis}, ok \in BOOLEAN :
          SetLayer(FlowCaller, FlowKey, v, 0, layer, ok)
    \/ StartGet(FlowCaller, FlowKey)
    \/ \E ok \in BOOLEAN : GetL2(FlowCaller, ok)
    \/ GetWarmFromL2(FlowCaller)
    \/ \E ok \in BOOLEAN : GetL3(FlowCaller, ok)
    \/ GetWarmFromL3(FlowCaller)
    \/ \E ok \in BOOLEAN : GetWarmL2(FlowCaller, ok)
    \/ \E ok \in BOOLEAN : StartIncrement(FlowCaller, FlowKey, 1, 0, ok)
    \/ \E ok \in BOOLEAN : IncPropagateL2(FlowCaller, ok)
    \/ IncPropagateL1(FlowCaller)
    \/ StartDelete(FlowCaller, FlowKey)
    \/ \E layer \in Layers, ok \in BOOLEAN : DeleteLayerStep(FlowCaller, layer, ok)

SpecFlow == InitFlow /\ [][NextFlow]_vars

\* the step gives the layer a value for k that it did not hold before
NewInL1(k) ==
    /\ MemGetValue(l1', k, now') # Null
    /\ MemGetValue(l1', k, now') # MemGetValue(l1, k, now)

NewInL2(k) ==
    /\ RedisGet(TRUE, l2', k, now') # Null
    /\ RedisGet(TRUE, l2', k, now') # RedisGet(TRUE, l2, k, now)

\* caller p's call comes, with this step, to one of the positions pcs
Enters(p, pcs) ==
    /\ calls'[p].pc \in pcs
    /\ calls[p].pc \notin pcs \/ calls[p].gen # calls'[p].gen

\* C11: with L3 configured, a value reaches L1 or L2 only from a
\* layer-targeted call, from a default set whose L3 write has already
\* returned successfully, or from a call that has the value in hand from a
\* read of L3 (or of L2, for L1) or from its own L3 increment; a default set
\* comes to its cache writes only in the step in which L3 took its value.
C11_CachesFedFromL3 ==
    [][l3Postgres =>
        \A p \in Procs :
            LET c == calls[p]
                d == calls'[p]
            IN /\ (calls'[p] # calls[p] /\ (NewInL1(d.key) \/ NewInL2(d.key)))
                    => \/ d.layer # NoLayer
                       \/ /\ c.pc \in {"set_l1", "set_l2"}
                          /\ Some(c.val) \in {MemGetValue(l1', c.key, now'),
                                              RedisGet(TRUE, l2', c.key, now')}
                       \/ /\ c.pc \in {"get_warm_l1", "get_warm_l3", "get_warm_l2",
                                       "inc_l2", "inc_l1"}
                          /\ c.data \in {MemGetValue(l1', c.key, now'),
                                         RedisGet(TRUE, l2', c.key, now')}
               /\ Enters(p, {"set_l1", "set_l2"})
                    => /\ d.pc = "set_l1"
                       /\ L3Holds(l3', d.key, d.val, now')
                       /\ l1' = l1 /\ l2' = l2
               /\ Enters(p, {"get_warm_l3", "get_warm_l2"})
                    => /\ d.pc = "get_warm_l3"
                       /\ d.data = PgGet(TRUE, l3, d.key, now)
               /\ Enters(p, {"get_warm_l1"})
                    => d.data = RedisGet(TRUE, l2, d.key, now)
               /\ Enters(p, {"inc_l2", "inc_l1"})
                    => d.data = PgGet(TRUE, l3', d.key, now')]_vars

\* a default set of the second value has returned true with that value in L3
\* and in both caches
C11_Witness ==
    LET c == calls[FlowCaller]
    IN /\ c.op = "set" /\ c.layer = NoLayer /\ c.pc = "done" /\ c.ok
       /\ l3Postgres /\ l2Redis
       /\ c.val = 2
       /\ L3Holds(l3, c.key, c.val, now)
       /\ L1Holds(l1, c.key, c.val, now)
       /\ L2Holds(l2, c.key, c.val, now)

\* C12: a default get that misses L1 and returns a value found in L2 or L3
\* leaves that value in L1, and in L2 too when it came from L3 and the L2
\* write went through; the default get that follows it at once answers with
\* the same value in its first step, without asking L2 or L3.
C12_HitWarmsUpperLayers ==
    [][LET c == calls[FlowCaller]
           d == calls'[FlowCaller]
       IN /\ (Returns(FlowCaller) /\ IsDefaultGet(d) /\ d.ret # Null)
               => /\ MemGetValue(l1', d.key, now') = d.ret
                  /\ c.pc = "get_warm_l2"
                       => IF l2conn
                          THEN RedisGet(TRUE, l2', d.key, now') = d.ret \/ l2' = l2
                          ELSE l2' = l2
                  /\ c.pc \in {"get_warm_l1", "get_warm_l3", "get_warm_l2"}
                       => d.ret = c.data
          /\ (/\ IsDefaultGet(c) /\ c.pc = "done" /\ c.ret # Null
              /\ IsDefaultGet(d) /\ d.gen # c.gen /\ d.key = c.key)
               => d.pc = "done" /\ d.ret = c.ret]_vars

\* a default get has returned the value it found below L1, L3 holds it and
\* both caches now hold it, L1 with the default TTL of the warm
C12_Witness ==
    LET c == calls[FlowCaller]
    IN /\ IsDefaultGet(c) /\ c.pc = "done" /\ c.ret # Null
       /\ c.data = c.ret
       /\ l2Redis /\ l2conn
       /\ PgGet(TRUE, l3, c.key, now) = c.ret
       /\ RedisGet(TRUE, l2, c.key, now) = c.ret
       /\ MemGetValue(l1, c.key, now) = c.ret
       /\ ExpiresOfKey(l1, c.key) = now + DefaultTTL * MsPerSecond

(***************************************************************************)
(* One caller on one key around connect and disconnect: the second value   *)
(* is offered to set only while the engine is not connected                *)
(***************************************************************************)
OffCaller == "p1"
OffKey == "a"
Accepted == 1
Rejected == 2

InitOff == InitCfg(BOOLEAN, BOOLEAN)

NextOff ==
    \/ \E ok2, ok3 \in BOOLEAN : Connect(ok2, ok3)
    \/ \E ok2, ok3 \in BOOLEAN : Disconnect(OffCaller, ok2, ok3)
    \/ \E ok \in BOOLEAN : StartSet(OffCaller, OffKey, Accepted, 0, ok)
    \/ \E ok \in BOOLEAN : ~connected /\ StartSet(OffCaller, OffKey, Rejected, 0, ok)
    \/ SetFanoutL1(OffCaller)
    \/ \E ok \in BOOLEAN : SetFanoutL2(OffCaller, ok)
    \/ \E layer \in Layers, ok \in BOOLEAN :
          SetLayer(OffCaller, OffKey, Accepted, 0, layer, ok)
    \/ \E layer \in Layers, ok \in BOOLEAN :
          ~connected /\ SetLayer(OffCaller, OffKey, Rejected, 0, layer, ok)
    \/ StartGet(OffCaller, OffKey)
    \/ \E ok \in BOOLEAN : GetL2(OffCaller, ok)
    \/ GetWarmFromL2(OffCaller)
    \/ \E ok \in BOOLEAN : GetL3(OffCaller, ok)
    \/ GetWarmFromL3(OffCaller)
    \/ \E ok \in BOOLEAN : GetWarmL2(OffCaller, ok)
    \/ \E layer \in Layers, ok \in BOOLEAN : GetLayer(OffCaller, OffKey, layer, ok)

SpecOff == InitOff /\ [][NextOff]_vars

\* C13: a set, default or layer-targeted, that starts while the engine is
\* not connected returns false in that same step and leaves L1, L2 and L3
\* exactly as they were; a value offered only to such sets is never held by
\* a layer and never returned by a get.
C13_NotConnectedSetRejected ==
    [][LET c == calls[OffCaller]
           d == calls'[OffCaller]
       IN /\ (d.op = "set" /\ d.gen # c.gen /\ ~connected)
               => /\ d.pc = "done" /\ ~d.ok
                  /\ l1' = l1 /\ l2' = l2 /\ l3' = l3
          /\ MemGetValue(l1', OffKey, now') # Some(Rejected)
          /\ RedisGet(TRUE, l2', OffKey, now') # Some(Rejected)
          /\ PgGet(TRUE, l3', OffKey, now') # Some(Rejected)
          /\ (d.op = "get" /\ d.pc = "done") => d.ret # Some(Rejected)]_vars

\* after a disconnect, a set has been rejected while every layer still holds
\* the value accepted before
C13_Witness ==
    LET c == calls[OffCaller]
    IN /\ c.op = "set" /\ c.pc = "done" /\ ~c.ok /\ c.val = Rejected
       /\ ~connected /\ ~cleanupTimer
       /\ l2Redis /\ l3Postgres
       /\ L1Holds(l1, OffKey, Accepted, now)
       /\ L2Holds(l2, OffKey, Accepted, now)
       /\ L3Holds(l3, OffKey, Accepted, now)

\* C32: once a disconnect has returned L1 is empty, and the get that
\* follows it does not return a value from L1
C32_DisconnectClearsL1 ==
    [][LET c == calls[OffCaller]
           d == calls'[OffCaller]
       IN /\ (Returns(OffCaller) /\ d.op = "disconnect" /\ ~d.threw) => l1' = <<>>
          /\ (/\ c.op = "disconnect" /\ c.pc = "done" /\ ~c.threw
              /\ d.op = "get" /\ d.gen # c.gen /\ d.pc = "done")
             => d.ret = Null]_vars

(***************************************************************************)
(* One caller on one key while the layers come and go: connects that may   *)
(* fail on either service, disconnects, health checks of any selection of  *)
(* layers, and the operations that reach L2                                *)
(***************************************************************************)
HealthCaller == "p1"
HealthKey == "a"

InitHealth == InitCfg(BOOLEAN, BOOLEAN)

NextHealth ==
    \/ \E ok2, ok3 \in BOOLEAN : Connect(ok2, ok3)
    \/ Disconnect(HealthCaller, TRUE, TRUE)
    \/ \E sel \in Selectors, ok2, ok3 \in BOOLEAN : HealthCheck(HealthCaller, sel, ok2, ok3)
    \/ StartSet(HealthCaller, HealthKey, 1, 0, TRUE)
    \/ SetFanoutL1(HealthCaller)
    \/ \E ok \in BOOLEAN : SetFanoutL2(HealthCaller, ok)
    \/ SetLayer(HealthCaller, HealthKey, 1, 0, LayerRedis, TRUE)
    \/ StartGet(HealthCaller, HealthKey)
    \/ GetL2(HealthCaller, TRUE)
    \/ GetWarmFromL2(HealthCaller)
    \/ GetL3(HealthCaller, TRUE)
    \/ GetWarmFromL3(HealthCaller)
    \/ GetWarmL2(HealthCaller, TRUE)
    \/ StartDelete(HealthCaller, HealthKey)
    \/ \E layer \in Layers : DeleteLayerStep(HealthCaller, layer, TRUE)

SpecHealth == InitHealth /\ [][NextHealth]_vars

OpsCaller == "p1"
OpsKey == "a"

InitOps == InitCfg(BOOLEAN, BOOLEAN)

NextOps ==
    \/ \E ok2, ok3 \in BOOLEAN : Connect(ok2, ok3)
    \/ Disconnect(OpsCaller, TRUE, TRUE)
    \/ \E ok \in BOOLEAN : StartSet(OpsCaller, OpsKey, 1, 0, ok)
    \/ SetFanoutL1(OpsCaller)
    \/ \E ok \in BOOLEAN : SetFanoutL2(OpsCaller, ok)
    \/ \E layer \in {LayerMemory, LayerPostgres}, ok \in BOOLEAN :
          SetLayer(OpsCaller, OpsKey, 1, 0, layer, ok)
    \/ StartGet(OpsCaller, OpsKey)
    \/ \E ok \in BOOLEAN : GetL2(OpsCaller, ok)
    \/ GetWarmFromL2(OpsCaller)
    \/ \E ok \in BOOLEAN : GetL3(OpsCaller, ok)
    \/ GetWarmFromL3(OpsCaller)
    \/ GetWarmL2(OpsCaller, TRUE)
    \/ StartDelete(OpsCaller, OpsKey)
    \/ \E layer \in Layers : DeleteLayerStep(OpsCaller, layer, TRUE)
    \/ StartExists(OpsCaller, OpsKey)
    \/ \E ok \in BOOLEAN : ExistsL2(OpsCaller, ok)
    \/ \E ok \in BOOLEAN : ExistsL3(OpsCaller, ok)
    \/ \E ttl \in TTLs : StartExpire(OpsCaller, OpsKey, ttl)
    \/ StartSetIfNotExists(OpsCaller, OpsKey, 1, 0)
    \/ \E ok \in BOOLEAN : ThenSet(OpsCaller, ok)
    \/ \E target \in Layers : StartPromote(OpsCaller, OpsKey, target)
    \/ \E ok \in BOOLEAN : PromoteSet(OpsCaller, ok)
    \/ \E target \in Layers : StartDemote(OpsCaller, OpsKey, target)
    \/ DemoteL2(OpsCaller, TRUE)
    \/ \E ok \in BOOLEAN : StartIncrement(OpsCaller, OpsKey, MaxValue, 0, ok)
    \/ IncPropagateL2(OpsCaller, TRUE)
    \/ IncPropagateL1(OpsCaller)

SpecOps == InitOps /\ [][NextOps]_vars

\* C23: set, delete, exists, expire, promote, demote, setIfNotExists and get
\* never end in an exception, whatever the layers do and whatever the
\* connection state: of the data operations only increment throws; a get
\* that does not return a value returns absent.
C23_OnlyIncrementThrows ==
    [][LET d == calls'[OpsCaller]
       IN Returns(OpsCaller)
          => /\ d.threw => d.op \in {"increment", "disconnect"}
             /\ d.op = "get" => d.ok = (d.ret # Null)]_vars

\* an expire has returned false, not thrown, on a connected engine whose L3
\* is connected and whose L1 holds the key: the L3 write of its set failed
C23_Witness ==
    LET c == calls[OpsCaller]
    IN /\ c.op = "expire" /\ c.pc = "done" /\ ~c.ok /\ ~c.threw
       /\ connected /\ l3Postgres /\ l3conn
       /\ MemGetValue(l1, c.key, now) # Null

\* no layer has a value for k
AbsentEverywhere(k) ==
    /\ MemGetValue(l1, k, now) = Null
    /\ RedisGet(TRUE, l2, k, now) = Null
    /\ PgGet(TRUE, l3, k, now) = Null

\* C27: expire(k, ttl) on a key absent from every layer changes no layer and
\* returns false; otherwise the value it sets is the one the cascade finds
\* for k, and when it returns true L3 (when configured) and L1 hold that
\* value with the expiry the new TTL gives; when its set is refused the
\* layers below L1 keep what they had.
C27_ExpireRewritesWithNewTTL ==
    [][LET c == calls[OpsCaller]
           d == calls'[OpsCaller]
       IN d.op = "expire" /\ d # c
          => /\ AbsentEverywhere(d.key)
                  => /\ l1' = l1 /\ l2' = l2 /\ l3' = l3
                     /\ d.pc \in {"get_l2", "get_l3", "done"}
                     /\ d.pc = "done" => ~d.ok
             /\ Enters(OpsCaller, {"then_set"})
                  => /\ Some(d.val) \in {MemGetValue(l1', d.key, now'),
                                         RedisGet(TRUE, l2, d.key, now),
                                         PgGet(TRUE, l3, d.key, now)}
                     /\ Some(d.val) = MemGetValue(l1', d.key, now')
             /\ (Returns(OpsCaller) /\ d.ok)
                  => /\ d.val = c.val
                     /\ l3Postgres => l3'[d.key] = {MkRow(d.val, d.ttl, now')}
                     /\ MapHas(l1', d.key)
                     /\ l1'[MapIndex(l1', d.key)] = MkEntry(d.key, d.val, d.ttl, now')
             /\ (Returns(OpsCaller) /\ ~d.ok /\ c.pc = "then_set")
                  => l1' = l1 /\ l2' = l2 /\ l3' = l3]_vars

\* an expire with a TTL has returned true for a key stored without one: L3
\* and L1 hold the same value as before, now with an expiry
C27_Witness ==
    LET c == calls[OpsCaller]
    IN /\ c.op = "expire" /\ c.pc = "done" /\ c.ok /\ c.ttl # 0
       /\ l3Postgres
       /\ l3[c.key] = {MkRow(c.val, c.ttl, now)}
       /\ ExpiresOfKey(l1, c.key) = ExpiryOf(c.ttl, now)
       /\ L1Holds(l1, c.key, c.val, now)


(***************************************************************************)
(* getMetrics(layers), resetMetrics() and the client's compact()           *)
(***************************************************************************)
\* the counters getMetrics(layers) reports: all of them without a selector,
\* else the hits and misses of each layer selected, and totalOperations when
\* more than one layer is selected
Reported(sel) ==
    IF sel = Null THEN Counters
    ELSE LET S == CHOOSE T \in sel : TRUE
         IN (IF LayerMemory \in S THEN {"memoryHits", "memoryMisses"} ELSE {})
            \cup (IF LayerRedis \in S THEN {"redisHits", "redisMisses"} ELSE {})
            \cup (IF LayerPostgres \in S THEN {"postgresHits", "postgresMisses"} ELSE {})
            \cup (IF Cardinality(S) > 1 THEN {"totalOperations"} ELSE {})

\* getMetrics reads the counters and changes nothing
GetMetrics(p, sel) ==
    LET c == NewCall("getMetrics", "", 0, 0, NoLayer)
    IN /\ CanStart(p) /\ sel \in Selectors
       /\ calls' = Begin(p, [Done(c, TRUE, Null) EXCEPT !.sel = sel,
                             !.snap = {[f \in Reported(sel) |-> r[f]] : r \in metrics}])
       /\ UNCHANGED <<now, l1, l2, l3, cfgVars, clientVars, poolVars, ghostVars, metrics>>

\* resetMetrics puts every counter back to zero
resetMetrics(m) == {[f \in Counters |-> 0] : r \in m}

\* NuvexClient.compact(): cleanup(), which sweeps the expired entries out of
\* L1, and then resetMetrics()
Compact(p) ==
    LET c == NewCall("compact", "", 0, 0, NoLayer)
    IN /\ CanStart(p)
       /\ l1' = MemCleanup(l1, now)
       /\ metrics' = resetMetrics(metrics)
       /\ calls' = Begin(p, Done(c, TRUE, Null))
       /\ UNCHANGED <<now, l2, l3, cfgVars, clientVars, poolVars, ghostVars>>

(***************************************************************************)
(* SpecMetrics: a worker reads, writes, deletes and compacts while an      *)
(* observer calls getMetrics; resetMetrics is never called.  The counters  *)
(* are followed, and an operation starts only below MaxOps operations.     *)
(***************************************************************************)
MaxOps == 2
Worker == "p1"
Observer == "p2"
MetricsKey == "a"

InitMetrics ==
    /\ InitEngine(BOOLEAN, {TRUE})
    /\ InitPool({TRUE})
    /\ InitFiles({Null})
    /\ metrics = ZeroMetrics

\* getMetrics(), getMetrics('memory') and getMetrics(['redis', 'postgres'])
ObservedSelectors == {Null, Some({LayerMemory}), Some({LayerRedis, LayerPostgres})}

OpsLeft == \A r \in metrics : r.totalOperations < MaxOps

NextMetrics ==
    \/ Connect(TRUE, TRUE)
    \/ OpsLeft /\ StartSet(Worker, MetricsKey, 1, 0, TRUE)
    \/ SetFanoutL1(Worker)
    \/ SetFanoutL2(Worker, TRUE)
    \/ \E layer \in {LayerRedis, LayerPostgres} :
          OpsLeft /\ SetLayer(Worker, MetricsKey, 1, 0, layer, TRUE)
    \/ OpsLeft /\ StartGet(Worker, MetricsKey)
    \/ \E ok \in BOOLEAN : GetL2(Worker, ok)
    \/ GetWarmFromL2(Worker)
    \/ \E ok \in BOOLEAN : GetL3(Worker, ok)
    \/ GetWarmFromL3(Worker)
    \/ GetWarmL2(Worker, TRUE)
    \/ OpsLeft /\ StartDelete(Worker, MetricsKey)
    \/ \E layer \in Layers : DeleteLayerStep(Worker, layer, TRUE)
    \/ Compact(Worker)
    \/ \E sel \in ObservedSelectors : GetMetrics(Observer, sel)

SpecMetrics == InitMetrics /\ [][NextMetrics]_vars

\* C25: in a session in which resetMetrics is never called, every counter
\* that two successive getMetrics observations both report is at least as
\* large in the second as in the first
C25_CountersNeverDecrease ==
    [][\A p \in Procs :
         (/\ calls[p].op = "getMetrics" /\ calls[p].pc = "done"
          /\ calls'[p].op = "getMetrics" /\ Returns(p))
         => \A a \in calls[p].snap, b \in calls'[p].snap :
               \A f \in DOMAIN a \cap DOMAIN b : b[f] >= a[f]]_vars


(***************************************************************************)
(* setBatch(operations), getBatch(keys) and deleteBatch(keys): a loop over *)
(* the entries, each awaited before the next.  The entries of a setBatch   *)
(* are valid 'set' operations of the value 1 without options.              *)
(***************************************************************************)
\* what the single-key operation of a batch returns for key k from the
\* present state when no request to a service fails: set is true when the
\* engine is connected and L3, if configured, takes the write; get finds the
\* value in the first layer that has it; delete returns true always
SingleKeyResult(op, k) ==
    IF op = "setBatch" THEN connected /\ (l3Postgres => l3conn)
    ELSE IF op = "getBatch"
    THEN \/ MemGetValue(l1, k, now) # Null
         \/ l2Redis /\ RedisGet(l2conn, l2, k, now) # Null
         \/ l3Postgres /\ PgGet(l3conn, l3, k, now) # Null
    ELSE TRUE

StartBatch(p, op, keys) ==
    LET c == [NewCall(op, "", 1, 0, NoLayer) EXCEPT !.input = keys, !.todo = keys]
    IN /\ CanStart(p)
       /\ calls' = Begin(p, IF keys = <<>> THEN Return(c, TRUE, Null)
                            ELSE [c EXCEPT !.pc = "batch_next"])
       /\ UNCHANGED <<now, l1, l2, l3, cfgVars, clientVars, poolVars, ghostVars, metrics>>

\* the next entry: setBatch calls set, getBatch calls get (its L1 look-up
\* is made at once), deleteBatch calls exists (its L1 look-up is made at
\* once) and deletes only a key that exists.  single collects what the
\* single-key operation returns for the entry at this point.
BatchNext(p) ==
    LET c == calls[p]
        k == Head(c.todo)
        e == [c EXCEPT !.key = k, !.data = Null, !.pend = {},
                       !.single = Append(@, SingleKeyResult(c.op, k))]
    IN /\ c.pc = "batch_next"
       /\ IF c.op = "setBatch"
          THEN /\ calls' = Upd(p, [e EXCEPT !.pc = "then_set"])
               /\ UNCHANGED <<l1, metrics>>
          ELSE IF c.op = "getBatch"
          THEN /\ l1' = MemGetCache(l1, k, now)
               /\ calls' = Upd(p, IF MemGetValue(l1, k, now) # Null
                                  THEN FinishGet(e, MemGetValue(l1, k, now))
                                  ELSE AfterMiss(e, "l1"))
               /\ metrics' = Count(metrics, {"totalOperations",
                                             IF MemGetValue(l1, k, now) # Null
                                             THEN "memoryHits" ELSE "memoryMisses"})
          ELSE /\ l1' = MemExistsCache(l1, k, now)
               /\ calls' = Upd(p, IF MemExistsValue(l1, k, now) THEN FinishExists(e, TRUE)
                                  ELSE IF l2Redis THEN [e EXCEPT !.pc = "ex_l2"]
                                  ELSE IF l3Postgres THEN [e EXCEPT !.pc = "ex_l3"]
                                  ELSE FinishExists(e, FALSE))
               /\ UNCHANGED metrics
       /\ UNCHANGED <<now, l2, l3, cfgVars, clientVars, poolVars, ghostVars>>

\* deleteBatch found the key: delete, L1 at once, the L2 and L3 deletes sent
BatchDelete(p) ==
    LET c == calls[p]
        pend == (IF l2Redis THEN {LayerRedis} ELSE {})
                \cup (IF l3Postgres THEN {LayerPostgres} ELSE {})
    IN /\ c.pc = "batch_delete"
       /\ l1' = MemDelete(l1, c.key)
       /\ calls' = Upd(p, IF pend = {} THEN Done(c, TRUE, Null)
                          ELSE [c EXCEPT !.pc = "del_wait", !.pend = pend])
       /\ metrics' = Count(metrics, {"totalOperations"})
       /\ UNCHANGED <<now, l2, l3, cfgVars, clientVars, poolVars, ghostVars>>

(***************************************************************************)
(* SpecBatch: one caller runs batches over two keys and writes single     *)
(* layers in between, no request to a service fails                        *)
(***************************************************************************)
MaxBatch == 2
BatchCaller == "p1"
BatchKeys == {"a", "b"}
BatchInputs == UNION {[1..n -> BatchKeys] : n \in 0..MaxBatch}

InitBatch == InitCfg(BOOLEAN, BOOLEAN)

\* connect() is called between the caller's operations
NextBatch ==
    \/ CanStart(BatchCaller) /\ Connect(TRUE, TRUE)
    \/ \E op \in {"setBatch", "getBatch", "deleteBatch"}, keys \in BatchInputs :
          StartBatch(BatchCaller, op, keys)
    \/ BatchNext(BatchCaller)
    \/ BatchDelete(BatchCaller)
    \/ ThenSet(BatchCaller, TRUE)
    \/ SetFanoutL1(BatchCaller)
    \/ SetFanoutL2(BatchCaller, TRUE)
    \/ \E k \in BatchKeys, layer \in {LayerRedis, LayerPostgres} :
          SetLayer(BatchCaller, k, 1, 0, layer, TRUE)
    \/ GetL2(BatchCaller, TRUE)
    \/ GetWarmFromL2(BatchCaller)
    \/ GetL3(BatchCaller, TRUE)
    \/ GetWarmFromL3(BatchCaller)
    \/ GetWarmL2(BatchCaller, TRUE)
    \/ ExistsL2(BatchCaller, TRUE)
    \/ ExistsL3(BatchCaller, TRUE)
    \/ \E layer \in Layers : DeleteLayerStep(BatchCaller, layer, TRUE)

SpecBatch == InitBatch /\ [][NextBatch]_vars

\* C26: a batch returns one result per input entry, in input order, and the
\* success of each entry is what the single-key operation (set, get, delete)
\* returns for that key at that point of the sequence
C26_BatchMatchesSingleKey ==
    [][\A p \in Procs :
         (Returns(p) /\ IsBatch(calls'[p]))
         => LET d == calls'[p]
            IN /\ Len(d.results) = Len(d.input)
               /\ \A i \in 1..Len(d.input) :
                     /\ d.results[i].key = d.input[i]
                     /\ d.results[i].success = d.single[i]]_vars


(***************************************************************************)
(* The process singleton: NuvexClient.initialize(config), getInstance()    *)
(* and shutdown().  The engine of the model is the engine of the instance. *)
(* initialized follows the lifecycle as a history: it is set by an         *)
(* initialize, which does not take effect when it throws, and cleared by a *)
(* shutdown that returns.                                                  *)
(***************************************************************************)
MaxInstances == 2

\* initialize up to its await: with no instance a client is constructed
\* from the configuration, which resets the engine, and its connect is
\* awaited; an instance there is returned as it is
\* cfg2, cfg3: the layers configured; owns: L3 given as a configuration
Initialize(p, cfg2, cfg3, owns) ==
    LET c == NewCall("initialize", "", 0, 0, NoLayer)
    IN /\ CanStart(p)
       /\ initialized' = TRUE
       /\ IF instance # Null
          THEN /\ calls' = Begin(p, Done(c, TRUE, instance))
               /\ UNCHANGED <<l1, cfgVars, mru, memRet, metrics, instance, created,
                              poolVars>>
          ELSE /\ created < MaxInstances
               /\ instance' = Some(created + 1)
               /\ created' = created + 1
               /\ l1' = <<>>
               /\ mru' = <<>>
               /\ memRet' = NoMemRet
               /\ l2Redis' = cfg2
               /\ l3Postgres' = cfg3
               /\ l2conn' = FALSE
               /\ l3conn' = FALSE
               /\ connected' = FALSE
               /\ cleanupTimer' = TRUE
               /\ metrics' = resetMetrics(metrics)
               /\ ownsPool' = (cfg3 /\ owns)
               /\ pool' = FALSE
               /\ openPools' = (IF OwnPool \in openPools
                                THEN (openPools \ {OwnPool}) \cup {ReplacedPool}
                                ELSE openPools)
                               \cup (IF cfg3 /\ ~owns THEN {GivenPool} ELSE {})
               /\ calls' = Begin(p, [c EXCEPT !.pc = "init_connect"])
       /\ UNCHANGED <<now, l2, l3, files>>

\* the connect that initialize awaits: what it throws is thrown to the
\* caller, with the instance kept
InitializeConnect(p, ok2, ok3) ==
    LET c == calls[p]
        threw == l3Postgres /\ ~ok3
    IN /\ c.pc = "init_connect"
       /\ ConnectEngine(ok2, ok3)
       /\ initialized' = ~threw
       /\ calls' = Upd(p, IF threw THEN Thrown(c) ELSE Done(c, TRUE, instance))
       /\ UNCHANGED <<instance, created, files>>

GetInstance(p) ==
    LET c == NewCall("getInstance", "", 0, 0, NoLayer)
    IN /\ CanStart(p)
       /\ calls' = Begin(p, IF instance = Null THEN Thrown(c)
                            ELSE Done(c, TRUE, instance))
       /\ UNCHANGED <<now, l1, l2, l3, cfgVars, clientVars, poolVars, ghostVars, metrics>>

\* shutdown up to its await: nothing to do without an instance
Shutdown(p) ==
    LET c == NewCall("shutdown", "", 0, 0, NoLayer)
    IN /\ CanStart(p)
       /\ calls' = Begin(p, IF instance = Null THEN Done(c, TRUE, Null)
                            ELSE [c EXCEPT !.pc = "shut_disconnect"])
       /\ UNCHANGED <<now, l1, l2, l3, cfgVars, clientVars, poolVars, ghostVars, metrics>>

\* the disconnect that shutdown awaits, and the instance dropped after it
ShutdownDisconnect(p, ok2, ok3) ==
    LET c == calls[p]
        threw == DisconnectThrows(ok2, ok3)
    IN /\ c.pc = "shut_disconnect"
       /\ DisconnectEngine(ok2, ok3)
       /\ instance' = IF threw THEN instance ELSE Null
       /\ initialized' = IF threw THEN initialized ELSE FALSE
       /\ calls' = Upd(p, IF threw THEN Thrown(c) ELSE Done(c, TRUE, Null))
       /\ UNCHANGED <<created, files>>

(***************************************************************************)
(* SpecSingleton: one caller initializes, writes through the instance and  *)
(* shuts down, another calls getInstance                                   *)
(***************************************************************************)
Owner == "p1"
Asker == "p2"

InitSingleton == InitCfg({FALSE}, {FALSE})

NextSingleton ==
    \/ \E cfg2, cfg3, owns \in BOOLEAN : Initialize(Owner, cfg2, cfg3, owns)
    \/ \E ok2, ok3 \in BOOLEAN : InitializeConnect(Owner, ok2, ok3)
    \/ Shutdown(Owner)
    \/ \E ok2, ok3 \in BOOLEAN : ShutdownDisconnect(Owner, ok2, ok3)
    \/ GetInstance(Asker)
    \/ instance # Null /\ \E ok \in BOOLEAN : StartSet(Owner, "a", 1, 0, ok)
    \/ SetFanoutL1(Owner)
    \/ SetFanoutL2(Owner, TRUE)

SpecSingleton == InitSingleton /\ [][NextSingleton]_vars

\* C28: getInstance throws exactly when no initialize has taken effect since
\* the last shutdown; while the singleton is initialized its instance stays
\* the same one, which is what every initialize returns
C28_SingletonLifecycle ==
    [][/\ \A p \in Procs :
            (Returns(p) /\ calls'[p].op = "getInstance")
            => (calls'[p].threw <=> ~initialized)
       /\ \A p \in Procs :
            (Returns(p) /\ calls'[p].op = "initialize" /\ ~calls'[p].threw)
            => calls'[p].ret = instance' /\ instance' # Null
       /\ (initialized /\ initialized') => instance' = instance]_vars


(***************************************************************************)
(* SpecInit: two callers call initialize and getInstance side by side,     *)
(* and shut down; a connect may fail on either service                     *)
(***************************************************************************)
InitCallers == {"p1", "p2"}

InitInit == InitCfg({FALSE}, {FALSE})

NextInit ==
    \/ \E p \in InitCallers, cfg2, cfg3 \in BOOLEAN : Initialize(p, cfg2, cfg3, TRUE)
    \/ \E p \in InitCallers, ok2, ok3 \in BOOLEAN : InitializeConnect(p, ok2, ok3)
    \/ \E p \in InitCallers : GetInstance(p)
    \/ \E p \in InitCallers : Shutdown(p)
    \/ \E p \in InitCallers : ShutdownDisconnect(p, TRUE, TRUE)

SpecInit == InitInit /\ [][NextInit]_vars

\* C37: whenever initialize resolves or getInstance returns, the engine of
\* the client handed out is connected
C37_ClientsHandedOutConnected ==
    [][\A p \in InitCallers :
         (/\ Returns(p)
          /\ calls'[p].op \in {"initialize", "getInstance"}
          /\ ~calls'[p].threw)
         => connected']_vars

(***************************************************************************)
(* SpecPool: L3 configured with a pool the caller gives or with a          *)
(* configuration the engine creates its pool from; connect and disconnect  *)
(* in any order, either of which may fail, and writes and increments in    *)
(* between                                                                 *)
(***************************************************************************)
PoolCaller == "p1"

InitPools ==
    /\ InitEngine(BOOLEAN, {TRUE})
    /\ InitPool(BOOLEAN)
    /\ InitFiles({Null})
    /\ metrics = Unmetered

NextPool ==
    \/ \E ok2, ok3 \in BOOLEAN : Connect(ok2, ok3)
    \/ \E ok2, ok3 \in BOOLEAN : Disconnect(PoolCaller, ok2, ok3)
    \/ \E ok \in BOOLEAN : StartSet(PoolCaller, "a", 1, 0, ok)
    \/ SetFanoutL1(PoolCaller)
    \/ \E ok \in BOOLEAN : SetFanoutL2(PoolCaller, ok)
    \/ \E ok \in BOOLEAN : StartIncrement(PoolCaller, "a", 1, 0, ok)
    \/ IncPropagateL2(PoolCaller, TRUE)
    \/ IncPropagateL1(PoolCaller)

SpecPool == InitPools /\ [][NextPool]_vars

\* C29: a pool the caller supplied is never closed, whatever the engine
\* does; once a disconnect has returned, no pool the engine created from
\* its configuration is left open
C29_PoolClosedByOwner ==
    [][/\ (GivenPool \in openPools) => (GivenPool \in openPools')
       /\ \A p \in Procs :
            (Returns(p) /\ calls'[p].op = "disconnect" /\ ~calls'[p].threw)
            => openPools' \subseteq {GivenPool}]_vars


(***************************************************************************)
(* SQL identifiers: validateSQLIdentifier, generateNuvexSchemaSQL(schema)  *)
(* and the constructor of PostgresStorage.  A string is the sequence of    *)
(* its characters; an absent name is Null.                                 *)
(***************************************************************************)
Letters == {"a", "b", "c", "d", "e", "f", "g", "h", "i", "j", "k", "l", "m",
            "n", "o", "p", "q", "r", "s", "t", "u", "v", "w", "x", "y", "z"}
Digits == {"0", "1", "2", "3", "4", "5", "6", "7", "8", "9"}

\* /^[a-zA-Z_][a-zA-Z0-9_]*$/.test(identifier)
RegexTest(identifier) ==
    /\ Len(identifier) >= 1
    /\ identifier[1] \in Letters \cup {"_"}
    /\ \A i \in 2..Len(identifier) : identifier[i] \in Letters \cup Digits \cup {"_"}

\* validateSQLIdentifier returns (TRUE) or throws (FALSE)
validateSQLIdentifier(identifier) == ~(identifier = <<>> \/ ~RegexTest(identifier))

DefaultTableName == <<"n", "u", "v", "e", "x", "_", "s", "t", "o", "r", "a", "g", "e">>
DefaultKeyColumn == <<"n", "u", "v", "e", "x", "_", "k", "e", "y">>
DefaultValueColumn == <<"n", "u", "v", "e", "x", "_", "d", "a", "t", "a">>

\* name ?? fallback
OrDefault(name, fallback) == IF name = Null THEN fallback ELSE CHOOSE n \in name : TRUE

\* the identifiers the schema SQL interpolates, in the order of the text
SchemaSQL(tableName, keyColumn, valueColumn) ==
    <<tableName, keyColumn, valueColumn, tableName, tableName, tableName,
      tableName, keyColumn, tableName, tableName, tableName, tableName,
      tableName, tableName, tableName, tableName>>

\* GenerateSchema with the value column not validated
GenerateSchemaSkipsValue(p, schema) ==
    LET c == NewCall("generateNuvexSchemaSQL", "", 0, 0, NoLayer)
        tableName == OrDefault(schema[1], DefaultTableName)
        keyColumn == OrDefault(schema[2], DefaultKeyColumn)
        valueColumn == OrDefault(schema[3], DefaultValueColumn)
        valid == validateSQLIdentifier(tableName) /\ validateSQLIdentifier(keyColumn)
    IN /\ CanStart(p)
       /\ calls' = Begin(p, [(IF valid THEN Done(c, TRUE, Null) ELSE Thrown(c))
                             EXCEPT !.input = schema,
                                    !.results = IF valid
                                                THEN SchemaSQL(tableName, keyColumn, valueColumn)
                                                ELSE <<>>])
       /\ UNCHANGED <<now, l1, l2, l3, cfgVars, clientVars, poolVars, ghostVars, metrics>>

\* generateNuvexSchemaSQL(schema): the three names, defaulted, are validated
\* before the text is built; schema is <<tableName, columns.key, columns.value>>
GenerateSchema(p, schema) ==
    LET c == NewCall("generateNuvexSchemaSQL", "", 0, 0, NoLayer)
        tableName == OrDefault(schema[1], DefaultTableName)
        keyColumn == OrDefault(schema[2], DefaultKeyColumn)
        valueColumn == OrDefault(schema[3], DefaultValueColumn)
        valid == /\ validateSQLIdentifier(tableName)
                 /\ validateSQLIdentifier(keyColumn)
                 /\ validateSQLIdentifier(valueColumn)
    IN /\ CanStart(p)
       /\ calls' = Begin(p, [(IF valid THEN Done(c, TRUE, Null) ELSE Thrown(c))
                             EXCEPT !.input = schema,
                                    !.results = IF valid
                                                THEN SchemaSQL(tableName, keyColumn, valueColumn)
                                                ELSE <<>>])
       /\ UNCHANGED <<now, l1, l2, l3, cfgVars, clientVars, poolVars, ghostVars, metrics>>

\* new PostgresStorage(config): the three names, defaulted, are validated
\* and kept; they are the identifiers every later statement interpolates
NewPostgresStorage(p, schema) ==
    LET c == NewCall("PostgresStorage", "", 0, 0, NoLayer)
        tableName == OrDefault(schema[1], DefaultTableName)
        keyColumn == OrDefault(schema[2], DefaultKeyColumn)
        valueColumn == OrDefault(schema[3], DefaultValueColumn)
        valid == /\ validateSQLIdentifier(tableName)
                 /\ validateSQLIdentifier(keyColumn)
                 /\ validateSQLIdentifier(valueColumn)
    IN /\ CanStart(p)
       /\ calls' = Begin(p, [(IF valid THEN Done(c, TRUE, Null) ELSE Thrown(c))
                             EXCEPT !.input = schema,
                                    !.results = IF valid
                                                THEN <<tableName, keyColumn, valueColumn>>
                                                ELSE <<>>])
       /\ UNCHANGED <<now, l1, l2, l3, cfgVars, clientVars, poolVars, ghostVars, metrics>>

(***************************************************************************)
(* SpecIdent: schemas are tried whose names are absent or strings of up to *)
(* MaxIdentLen characters, a letter, an underscore, a digit or a           *)
(* semicolon; one name at a time ranges over all of them, the other two    *)
(* over Plain                                                              *)
(***************************************************************************)
MaxIdentLen == 2
IdentCaller == "p1"
Chars == {"a", "_", "1", ";"}
Names == {Null} \cup {Some(n) : n \in UNION {[1..len -> Chars] : len \in 0..MaxIdentLen}}
Plain == {Null, Some(<<"a">>), Some(<<";">>)}
Schemas == {sc \in Names \X Names \X Names :
               Cardinality({i \in 1..3 : sc[i] \notin Plain}) <= 1}

InitIdent == InitCfg({FALSE}, {FALSE})

\* each function is applied once to each schema
NextIdent ==
    \/ /\ calls[IdentCaller].pc = "idle"
       /\ \E schema \in Schemas : GenerateSchema(IdentCaller, schema)
    \/ /\ calls[IdentCaller].pc = "idle"
       /\ \E schema \in Schemas : NewPostgresStorage(IdentCaller, schema)

SpecIdent == InitIdent /\ [][NextIdent]_vars

\* the pattern ^[A-Za-z_][A-Za-z0-9_]*$, read from the end of the string: a
\* string matches when it is one first character, or a matching string
\* followed by one more character
RECURSIVE MatchesPattern(_)
MatchesPattern(s) ==
    IF Len(s) = 0 THEN FALSE
    ELSE IF Len(s) = 1 THEN s[1] \in Letters \cup {"_"}
    ELSE /\ s[Len(s)] \in Letters \cup Digits \cup {"_"}
         /\ MatchesPattern(SubSeq(s, 1, Len(s) - 1))

\* C30: schema generation and the L3 constructor throw, with no SQL built,
\* when one of the names given does not match ^[A-Za-z_][A-Za-z0-9_]*$;
\* else they return, and every identifier their SQL interpolates matches
\* the pattern, the names given among them
C30_IdentifiersValidated ==
    [][\A p \in Procs :
         (Returns(p) /\ calls'[p].op \in {"generateNuvexSchemaSQL", "PostgresStorage"})
         => LET d == calls'[p]
                given == UNION {d.input[i] : i \in 1..3}
            IN /\ d.threw <=> \E n \in given : ~MatchesPattern(n)
               /\ d.threw => d.results = <<>>
               /\ ~d.threw => /\ \A i \in 1..Len(d.results) : MatchesPattern(d.results[i])
                              /\ Len(d.results) >= 3
                              /\ \A i \in 1..3 : d.input[i] \subseteq {d.results[i]}]_vars

\* a schema whose key column starts with a digit has been rejected
C30_Witness ==
    \E p \in Procs :
        /\ calls[p].op = "generateNuvexSchemaSQL" /\ calls[p].pc = "done"
        /\ calls[p].input = <<Some(<<"a">>), Some(<<"1", "a">>), Null>>
        /\ calls[p].threw


(***************************************************************************)
(* backup(destination) and restore(source, options) of the client, with    *)
(* StorageEngine.keys, getLayerInfo and clear.  One backup id is followed: *)
(* files is Null or the package {metadata, data} written under that id.    *)
(* A package is [data, taken]: data the entries [key, value, layer], taken *)
(* (history) the mapping the engine held when its backup wrote the file,   *)
(* Null for a file this engine did not write.  Backups are full            *)
(* (options.incremental left false).                                       *)
(***************************************************************************)
\* the metadata objects stored under the internal keys
MetadataValue == 0

\* StorageEngine.keys: no layer is asked, the set built is returned empty
keys(pattern) == {}

\* what get(k) returns from this state: the first layer of the cascade that
\* has the key
Lookup(k) ==
    IF MemGetValue(l1, k, now) # Null THEN MemGetValue(l1, k, now)
    ELSE IF l2Redis /\ RedisGet(l2conn, l2, k, now) # Null
    THEN RedisGet(l2conn, l2, k, now)
    ELSE IF l3Postgres THEN PgGet(l3conn, l3, k, now)
    ELSE Null

\* getLayerInfo: the first layer, L1 to L3, in which the key exists
getLayerInfo(k) ==
    IF MemExistsValue(l1, k, now) THEN Some(LayerMemory)
    ELSE IF l2Redis /\ RedisExists(l2conn, l2, k, now) THEN Some(LayerRedis)
    ELSE IF l3Postgres /\ PgExists(l3conn, l3, k, now) THEN Some(LayerPostgres)
    ELSE Null

\* the mapping of the non-internal keys to the values get returns
Mapping == [k \in Keys |-> Lookup(k)]

\* backupData: one entry for every key of allKeys that is not internal and
\* whose get does not come back null
BackupData(allKeys) ==
    {[key |-> k, value |-> CHOOSE v \in Lookup(k) : TRUE, layer |-> getLayerInfo(k)] :
        k \in {x \in allKeys : x \notin InternalKeys /\ Lookup(x) # Null}}

\* no layer holds a key
EngineEmpty ==
    /\ l1 = <<>>
    /\ \A k \in StoreKeys : l2[k] = {} /\ l3[k] = {}

RECURSIVE SetToSeq(_)
\* Object.entries(data)
SetToSeq(S) ==
    IF S = {} THEN <<>>
    ELSE LET x == CHOOSE y \in S : TRUE IN <<x>> \o SetToSeq(S \ {x})

\* backup up to the set of its metadata: the keys are listed, their values
\* collected and the package written
\* ok: whether the file is written (a failure is thrown to the caller)
Backup(p, ok) ==
    LET c == NewCall("backup", LastBackupKey, MetadataValue, 0, NoLayer)
        allKeys == keys("*")
    IN /\ CanStart(p)
       /\ files' = IF ok THEN Some([data |-> BackupData(allKeys), taken |-> Some(Mapping)])
                   ELSE files
       /\ calls' = Begin(p, IF ok THEN [c EXCEPT !.pc = "then_set"] ELSE Thrown(c))
       /\ UNCHANGED <<now, l1, l2, l3, cfgVars, instance, created, initialized,
                      poolVars, ghostVars, metrics>>

\* the restore goes on to its entries, or past the last to the set of its
\* metadata
RestoreStep(c) ==
    LET d == [c EXCEPT !.empty = @ \/ (c.pc # "restore_entry" /\ EngineEmpty')]
    IN IF d.todo = <<>>
       THEN [d EXCEPT !.pc = "then_set", !.key = LastRestoreKey, !.val = MetadataValue]
       ELSE [d EXCEPT !.pc = "restore_entry"]

\* restore up to its first await on the engine: without a file the
\* '__backup:<id>' key is looked up and false returned whatever is found;
\* with one, a dry run returns true, and otherwise the engine is cleared
\* when asked and the entries are restored
Restore(p, clearExisting, dryRun) ==
    LET c == NewCall("restore", InternalBackupKey, 0, 0, NoLayer)
    IN IF files = Null
       THEN Cascade(p, c)
       ELSE LET package == CHOOSE f \in files : TRUE
                d == [c EXCEPT !.todo = SetToSeq(package.data)]
            IN /\ CanStart(p)
               /\ UNCHANGED <<now, l1, l2, l3, cfgVars, clientVars, poolVars,
                              ghostVars, metrics>>
               /\ calls' = Begin(p, IF dryRun THEN Return(d, TRUE, Null)
                                    ELSE IF clearExisting THEN [d EXCEPT !.pc = "clear_l1"]
                                    ELSE RestoreStep(d))

\* StorageEngine.clear('*'): L1 is cleared at once
ClearL1(p) ==
    LET c == calls[p]
    IN /\ c.pc = "clear_l1"
       /\ l1' = <<>>
       /\ UNCHANGED <<now, l2, l3, cfgVars, clientVars, poolVars, ghostVars, metrics>>
       /\ calls' = Upd(p, IF l2Redis THEN [c EXCEPT !.pc = "clear_l2"]
                          ELSE IF l3Postgres THEN [c EXCEPT !.pc = "clear_l3"]
                          ELSE RestoreStep(c))

\* RedisStorage.clear: flushDb; nothing when not connected, a failure logged
ClearL2(p, ok) ==
    LET c == calls[p]
    IN /\ c.pc = "clear_l2"
       /\ l2' = IF l2conn /\ ok THEN EmptyStore ELSE l2
       /\ UNCHANGED <<now, l1, l3, cfgVars, clientVars, poolVars, ghostVars, metrics>>
       /\ calls' = Upd(p, IF l3Postgres THEN [c EXCEPT !.pc = "clear_l3"]
                          ELSE RestoreStep(c))

\* PostgresStorage.clear: DELETE FROM the table; nothing when not connected,
\* a failure logged
ClearL3(p, ok) ==
    LET c == calls[p]
    IN /\ c.pc = "clear_l3"
       /\ l3' = IF l3conn /\ ok THEN EmptyStore ELSE l3
       /\ UNCHANGED <<now, l1, l2, cfgVars, clientVars, poolVars, ghostVars, metrics>>
       /\ calls' = Upd(p, RestoreStep(c))

\* one entry of the package: set(key, value, {layer}) with the layer the
\* entry records, counted as an error when set returns false
\* ok: whether the layer's write succeeds
RestoreEntry(p, ok) ==
    LET c == calls[p]
        e == Head(c.todo)
        layer == IF e.layer = Null THEN NoLayer ELSE CHOOSE x \in e.layer : TRUE
        threw == layer = LayerPostgres /\ l3Postgres /\ ~(l3conn /\ ok)
        d == [c EXCEPT !.todo = Tail(@),
                       !.results = Append(@, [key |-> e.key,
                                              success |-> connected /\ ~threw])]
    IN /\ c.pc = "restore_entry"
       /\ l1' = IF connected /\ layer = LayerMemory
                THEN MemSet(l1, e.key, e.value, 0, now, MaxSize) ELSE l1
       /\ l2' = IF connected /\ layer = LayerRedis /\ l2Redis
                THEN RedisSet(l2conn /\ ok, l2, e.key, e.value, 0, now) ELSE l2
       /\ l3' = IF connected /\ layer = LayerPostgres /\ l3Postgres /\ ~threw
                THEN PgSet(l3, e.key, e.value, 0, now) ELSE l3
       /\ calls' = Upd(p, RestoreStep(d))
       /\ UNCHANGED <<now, cfgVars, clientVars, poolVars, ghostVars>>
       /\ metrics' = (IF connected THEN Count(metrics, {"totalOperations"}) ELSE metrics)

(***************************************************************************)
(* SpecBackup: one caller connects, writes a key, backs up and restores,   *)
(* with or without clearing first; any request may fail.  The directory    *)
(* starts empty or with a package of one entry written by an earlier run.  *)
(***************************************************************************)
BackupCaller == "p1"
BackupKey == "a"

\* the packages of an earlier run: key 'a' with value 1 found in one layer
EarlierPackages ==
    {[data |-> {[key |-> BackupKey, value |-> 1, layer |-> Some(l)]}, taken |-> Null] :
        l \in Layers}

InitBackup ==
    /\ InitEngine(BOOLEAN, BOOLEAN)
    /\ InitPool({TRUE})
    /\ InitFiles({Null} \cup {Some(f) : f \in EarlierPackages})
    /\ metrics = Unmetered

NextBackup ==
    \/ CanStart(BackupCaller) /\ Connect(TRUE, TRUE)
    \/ \E v \in SetValues, ok \in BOOLEAN : StartSet(BackupCaller, BackupKey, v, 0, ok)
    \/ SetFanoutL1(BackupCaller)
    \/ \E ok \in BOOLEAN : SetFanoutL2(BackupCaller, ok)
    \/ \E ok \in BOOLEAN : Backup(BackupCaller, ok)
    \/ \E clearExisting, dryRun \in BOOLEAN : Restore(BackupCaller, clearExisting, dryRun)
    \/ \E ok \in BOOLEAN : GetL2(BackupCaller, ok)
    \/ \E ok \in BOOLEAN : GetL3(BackupCaller, ok)
    \/ ClearL1(BackupCaller)
    \/ \E ok \in BOOLEAN : ClearL2(BackupCaller, ok)
    \/ \E ok \in BOOLEAN : ClearL3(BackupCaller, ok)
    \/ \E ok \in BOOLEAN : RestoreEntry(BackupCaller, ok)
    \/ \E ok \in BOOLEAN : ThenSet(BackupCaller, ok)

SpecBackup == InitBackup /\ [][NextBackup]_vars

\* C31: when a restore that found the engine empty returns true, get
\* returns for every non-internal key what it returned when the backup
\* that wrote the package was taken
C31_RestoreReproducesBackup ==
    [][\A p \in Procs :
         (/\ Returns(p)
          /\ calls'[p].op = "restore"
          /\ calls'[p].ok
          /\ calls'[p].empty
          /\ \E f \in files : f.taken # Null)
         => \E f \in files : f.taken = Some(Mapping')]_vars

(***************************************************************************)
(* SpecCond: after a connect, two callers each call setIfNotExists once on *)
(* one key that no layer holds, with their own values and the same         *)
(* options; any request to a service may fail                              *)
(***************************************************************************)
CondCallers == {"p1", "p2"}
CondKey == "a"
\* the value each caller offers
CondValue == [p \in CondCallers |-> IF p = "p1" THEN 1 ELSE 2]
\* options.layer: left out, or one of the layers
CondLayers == {NoLayer} \cup Layers

InitCond == InitCfg(BOOLEAN, BOOLEAN)

NextCond ==
    \/ /\ \A p \in CondCallers : calls[p].pc = "idle"
       /\ \E ok2, ok3 \in BOOLEAN : Connect(ok2, ok3)
    \/ \E p \in CondCallers :
          /\ calls[p].pc = "idle"
          /\ \A q \in CondCallers : calls[q].op = "none" \/ calls[q].layer = NoLayer
          /\ StartSetIfNotExists(p, CondKey, CondValue[p], 0)
    \/ \E p \in CondCallers, layer \in Layers, ok \in BOOLEAN :
          /\ calls[p].pc = "idle"
          /\ \A q \in CondCallers : calls[q].op = "none" \/ calls[q].layer = layer
          /\ StartSetIfNotExistsLayer(p, CondKey, CondValue[p], 0, layer, ok)
    \/ \E p \in CondCallers, ok \in BOOLEAN : ExistsL2(p, ok)
    \/ \E p \in CondCallers, ok \in BOOLEAN : ExistsL3(p, ok)
    \/ \E p \in CondCallers, ok \in BOOLEAN : ThenSet(p, ok)
    \/ \E p \in CondCallers, ok \in BOOLEAN : ThenSetLayer(p, ok)
    \/ \E p \in CondCallers : SetFanoutL1(p)
    \/ \E p \in CondCallers, ok \in BOOLEAN : SetFanoutL2(p, ok)

SpecCond == InitCond /\ [][NextCond]_vars

\* what get(k, {layer}) returns from this state
LookupLayer(k, layer) ==
    IF layer = NoLayer THEN Lookup(k)
    ELSE IF layer = LayerMemory THEN MemGetValue(l1, k, now)
    ELSE IF layer = LayerRedis THEN (IF l2Redis THEN RedisGet(l2conn, l2, k, now) ELSE Null)
    ELSE (IF l3Postgres THEN PgGet(l3conn, l3, k, now) ELSE Null)

\* both callers' setIfNotExists have returned true
BothTrue ==
    \A p \in CondCallers :
        calls[p].op = "setIfNotExists" /\ calls[p].pc = "done" /\ calls[p].ok

\* C33: two setIfNotExists that overlap can both return true; when one
\* starts after the other has returned true, it returns false and the key
\* still has the first one's value
C33_SequentialSecondReturnsFalse ==
    [][\A p, q \in CondCallers :
         (/\ Returns(q)
          /\ calls'[q].op = "setIfNotExists"
          /\ p \in calls'[q].after
          /\ calls[p].op = "setIfNotExists" /\ calls[p].ok)
         => /\ ~calls'[q].ok
            /\ \E layer \in CondLayers :
                  /\ layer = calls'[q].layer
                  /\ LookupLayer(CondKey, layer)' = Some(calls[p].val)]_vars

(***************************************************************************)
(* SpecIncTTL: one caller increments one key through the client, with and  *)
(* without a TTL, and sets it with a TTL; the clock advances between the   *)
(* calls                                                                   *)
(***************************************************************************)
TTLCaller == "p1"
TTLKey == "a"
\* options.ttl, in seconds: none, one second, a thousand seconds
ClientTTLs == {0, 1, MsPerSecond}

InitIncTTL == InitCfg(BOOLEAN, BOOLEAN)

NextIncTTL ==
    \/ CanStart(TTLCaller) /\ Connect(TRUE, TRUE)
    \/ \E ttl \in TTLs, ok \in BOOLEAN : StartSet(TTLCaller, TTLKey, 1, ttl, ok)
    \/ SetFanoutL1(TTLCaller)
    \/ \E ok \in BOOLEAN : SetFanoutL2(TTLCaller, ok)
    \/ \E ttl \in ClientTTLs, ok \in BOOLEAN : ClientIncrement(TTLCaller, TTLKey, 1, ttl, ok)
    \/ \E ok \in BOOLEAN : IncExpire(TTLCaller, ok)
    \/ \E ok \in BOOLEAN : IncPropagateL2(TTLCaller, ok)
    \/ IncPropagateL1(TTLCaller)
    \/ CanStart(TTLCaller) /\ Tick

SpecIncTTL == InitIncTTL /\ [][NextIncTTL]_vars

\* the expiry times the layers hold for key k (0: none)
ExpiriesHeld(k) ==
    {ExpiresOfKey(l1, k) : x \in {y \in {1} : MapHas(l1, k)}}
    \cup {e.expires : e \in l2[k]}
    \cup {e.expires : e \in l3[k]}

\* C38: when an increment throws, the authoritative layer holds for the
\* key the value it held when the increment started
C38_ThrownIncrementAppliesNothing ==
    [][LET d == calls'[TTLCaller]
       IN (Returns(TTLCaller) /\ d.op = "increment" /\ d.threw)
          => AuthoritativeValue(TTLKey)' = d.before]_vars

\* C34: once client.increment(k, d, {ttl: t}) with t > 0 has returned its
\* number, every layer that holds k holds it with the expiry set's TTL of t
\* seconds gives: t seconds after the call
C34_IncrementTTLInSeconds ==
    LET c == calls[TTLCaller]
    IN (c.op = "increment" /\ c.pc = "done" /\ c.ok /\ c.given > 0)
       => ExpiriesHeld(c.key) = {ExpiryOf(c.given, c.at)}

(***************************************************************************)
(* SpecExpire: on a connected engine one caller calls expire on a key      *)
(* while another sets and deletes it, in every interleaving of their       *)
(* steps; every request succeeds                                           *)
(***************************************************************************)
Expirer == "p1"
Writer == "p2"
ExpireKey == "a"

InitExpire == InitCfg(BOOLEAN, BOOLEAN)

NextExpire ==
    \/ (\A p \in Procs : calls[p].pc = "idle") /\ Connect(TRUE, TRUE)
    \/ connected /\ StartExpire(Expirer, ExpireKey, 1)
    \/ GetL2(Expirer, TRUE)
    \/ GetWarmFromL2(Expirer)
    \/ GetL3(Expirer, TRUE)
    \/ GetWarmFromL3(Expirer)
    \/ GetWarmL2(Expirer, TRUE)
    \/ ThenSet(Expirer, TRUE)
    \/ \E v \in SetValues : connected /\ StartSet(Writer, ExpireKey, v, 0, TRUE)
    \/ \E p \in {Expirer, Writer} : SetFanoutL1(p)
    \/ \E p \in {Expirer, Writer} : SetFanoutL2(p, TRUE)
    \/ connected /\ StartDelete(Writer, ExpireKey)
    \/ \E layer \in Layers : DeleteLayerStep(Writer, layer, TRUE)

SpecExpire == InitExpire /\ [][NextExpire]_vars

\* the values the layers hold for key k
ValuesHeld(k) ==
    MemGetValue(l1, k, now) \cup RedisGet(TRUE, l2, k, now) \cup PgGet(TRUE, l3, k, now)

\* C36: once an expire and a set(k, v2) that ran side by side have both
\* returned, every layer that holds k holds v2, as after either serial
\* order; once an expire and a delete that ran side by side have both
\* returned, no layer holds k
C36_ExpireSerializable ==
    LET e == calls[Expirer]
        w == calls[Writer]
    IN (/\ e.op = "expire" /\ e.pc = "done"
        /\ w.pc = "done" /\ w.ok
        /\ Expirer \notin w.after /\ Writer \notin e.after)
       => /\ w.op = "set" => ValuesHeld(ExpireKey) \subseteq {w.val}
          /\ w.op = "delete" => ValuesHeld(ExpireKey) = {}


(***************************************************************************)
(* get with its first await as a step of its own: totalOperations is       *)
(* counted when get is called, the L1 lookup is awaited, and the hit or    *)
(* miss is counted when the call resumes                                   *)
(***************************************************************************)
\* get is called: totalOperations++, then the call is suspended on L1
GetCount(p, k) ==
    LET c == NewCall("get", k, 0, 0, NoLayer)
    IN /\ CanStart(p)
       /\ metrics' = Count(metrics, {"totalOperations"})
       /\ calls' = Begin(p, [c EXCEPT !.pc = "get_l1"])
       /\ UNCHANGED <<now, l1, l2, l3, cfgVars, clientVars, poolVars, ghostVars>>

\* the L1 lookup has resolved: memoryHits++ and return, or memoryMisses++
\* and on to the next layer
GetL1(p) ==
    LET c == calls[p]
        data == MemGetValue(l1, c.key, now)
    IN /\ c.pc = "get_l1"
       /\ l1' = MemGetCache(l1, c.key, now)
       /\ metrics' = Count(metrics, {IF data # Null THEN "memoryHits" ELSE "memoryMisses"})
       /\ calls' = Upd(p, IF data # Null THEN FinishGet(c, data) ELSE AfterMiss(c, "l1"))
       /\ UNCHANGED <<now, l2, l3, cfgVars, clientVars, poolVars, ghostVars>>

\* client.resetMetrics(): synchronous, every counter back to zero
ResetMetrics(p) ==
    LET c == NewCall("resetMetrics", "", 0, 0, NoLayer)
    IN /\ CanStart(p)
       /\ metrics' = resetMetrics(metrics)
       /\ calls' = Begin(p, Done(c, TRUE, Null))
       /\ UNCHANGED <<now, l1, l2, l3, cfgVars, clientVars, poolVars, ghostVars>>

(***************************************************************************)
(* SpecReset: a getter sets and gets one key while an observer calls       *)
(* resetMetrics and getMetrics at any moment, also between the steps of a  *)
(* get.  An operation starts only below MaxOps counted operations.         *)
(***************************************************************************)
Getter == "p1"
Resetter == "p2"
ResetKey == "a"

InitReset ==
    /\ InitEngine(BOOLEAN, BOOLEAN)
    /\ InitPool({TRUE})
    /\ InitFiles({Null})
    /\ metrics = ZeroMetrics

NextReset ==
    \/ Connect(TRUE, TRUE)
    \/ OpsLeft /\ StartSet(Getter, ResetKey, 1, 0, TRUE)
    \/ SetFanoutL1(Getter)
    \/ SetFanoutL2(Getter, TRUE)
    \/ \E layer \in {LayerRedis, LayerPostgres} :
          OpsLeft /\ SetLayer(Getter, ResetKey, 1, 0, layer, TRUE)
    \/ OpsLeft /\ GetCount(Getter, ResetKey)
    \/ GetL1(Getter)
    \/ \E ok \in BOOLEAN : GetL2(Getter, ok)
    \/ GetWarmFromL2(Getter)
    \/ \E ok \in BOOLEAN : GetL3(Getter, ok)
    \/ GetWarmFromL3(Getter)
    \/ GetWarmL2(Getter, TRUE)
    \/ OpsLeft /\ StartDelete(Getter, ResetKey)
    \/ \E layer \in Layers : DeleteLayerStep(Getter, layer, TRUE)
    \/ ResetMetrics(Resetter)
    \/ GetMetrics(Resetter, Null)

SpecReset == InitReset /\ [][NextReset]_vars

\* C40: what a getMetrics call has returned has memoryHits + memoryMisses at
\* most totalOperations, also when resetMetrics ran while a get was
\* suspended on a layer call
C40_MemoryCountsWithinTotal ==
    \A p \in Procs :
       (calls[p].op = "getMetrics" /\ calls[p].pc = "done")
       => \A r \in calls[p].snap :
             r["memoryHits"] + r["memoryMisses"] <= r["totalOperations"]

====
